---- MODULE Spec2Model ----
(***************************************************************************)
(* Decision core of the cross-venue soccer market maker: snapshot store,   *)
(* fair-price fusion, quote policy, risk gate, per-market lifecycle state  *)
(* machine and the strategy that wires them (src/src/soccer_strategy.py).  *)
(*                                                                         *)
(* Numbers.  Python floats are modelled as exact decimals: a probability p *)
(* is the integer p * Unit.  Unit is a multiple of 200 * 10^MaxObs, so     *)
(* ticks/100, half ticks, the weights (multiples of 0.05) and MaxObs       *)
(* successive EWMA steps (each divides by 10) are all exact.  Binary       *)
(* floating-point rounding error is not modelled.  A shock score is the    *)
(* exact fraction num/den.  Times are epoch milliseconds.                  *)
(*                                                                         *)
(* Python's None is the value None (-1) for numbers, which are all >= 0.   *)
(*                                                                         *)
(* The phase constants of models/match_phase.py are plain strings; the     *)
(* strategy reads them through `.value`, which is modelled as the phase    *)
(* name itself, and MarketSnapshot's venue-B fields, which the store's     *)
(* constructor calls leave out, start as None.                             *)
(***************************************************************************)
EXTENDS Integers, Sequences, FiniteSets, TLC

VARIABLES
    now,        \* current_epoch_ms(): the wall clock, in ms
    sm,         \* MarketContext.state_machine, per market
    snapshots,  \* MarketDataStore._snapshots, per market
    ewma,       \* FairPriceCalculator._poly_mid_ewma / _poly_vol_ewma (one calculator)
    obs,        \* number of EWMA update steps taken so far (bounded by MaxObs)
    risk,       \* RiskManager._state
    arg,        \* arguments of the call under way (specifications of single functions)
    out,        \* what the last call returned
    hist        \* history: what an observer of the calls has seen so far

vars == <<now, sm, snapshots, ewma, obs, risk, arg, out, hist>>

----------------------------------------------------------------------------
(* Bounds of the model *)

MaxObs == 2          \* EWMA update steps explored
MaxTicks == 3        \* clock steps explored
MaxFills == 3        \* check_fill_rate calls explored

----------------------------------------------------------------------------
(* Numbers *)

None == 0 - 1

Pow10[n \in Nat] == IF n = 0 THEN 1 ELSE 10 * Pow10[n - 1]

Unit == 200 * Pow10[MaxObs]      \* the probability 1.0
Cent == Unit \div 100            \* the probability 0.01, one tick

Max(a, b) == IF a >= b THEN a ELSE b
Min(a, b) == IF a <= b THEN a ELSE b
Abs(a) == IF a >= 0 THEN a ELSE 0 - a

\* Python truthiness of an optional number: None and 0 are both false.
Truthy(x) == x # None /\ x # 0

\* round(x / d) as Python 3 rounds: to nearest, ties to the even neighbour.
RoundHalfEven(x, d) ==
    LET q == x \div d
        r == x - q * d
    IN  IF 2 * r < d THEN q
        ELSE IF 2 * r > d THEN q + 1
        ELSE IF q % 2 = 0 THEN q ELSE q + 1

----------------------------------------------------------------------------
(* Configuration: SoccerStrategyParams defaults, demo environment *)

is_demo == TRUE

w_poly_base_prematch == 70 * Cent
w_poly_base_inplay == 85 * Cent
poly_spread_narrow_threshold == 2 * Cent
poly_spread_wide_threshold == 6 * Cent
poly_spread_narrow_bonus == 5 * Cent
poly_spread_wide_penalty == 10 * Cent
shock_score_threshold_x10 == 30          \* 3.0, in tenths
pause_seconds_shock == 10

base_half_spread_prematch == 3 * Cent
base_half_spread_inplay == 6 * Cent
adv_buffer_prematch == 1 * Cent
adv_buffer_inplay == 3 * Cent
adv_buffer_shock == 2 * Cent

max_order_notional_cents == IF is_demo THEN 300 ELSE 100
max_contracts_per_order == IF is_demo THEN 25 ELSE 10
max_size_vs_depth_ratio_pct == 25

max_position_notional_cents == IF is_demo THEN 2500 ELSE 1000
max_total_notional_cents == IF is_demo THEN 12500 ELSE 5000
max_filled_notional_per_minute_cents == IF is_demo THEN 2000 ELSE 800
drawdown_limit_cents == IF is_demo THEN 5000 ELSE 2000

stop_before_end_seconds == 600
stale_seconds_prematch == 10
stale_seconds_inplay == 3
warmup_seconds == 5

----------------------------------------------------------------------------
(* fee_model.py *)

kalshi_fee_no_minimum(price, contracts) == (price * contracts) \div 10

\* kalshi_fee_cents(price, contracts): 10% of the notional, at least
\* max(10, contracts) cents.
kalshi_fee_cents(price, contracts) ==
    LET notional_cents == price * contracts
        fee_cents == notional_cents \div 10
        min_fee_cents == Max(10, contracts)
    IN  Max(fee_cents, min_fee_cents)

\* fee_buffer_probability(price): twice the fee of one contract, as a
\* probability, at least 0.01 and at most 0.10.
fee_buffer_probability(price) ==
    LET fee_per_contract == kalshi_fee_cents(price, 1) * Cent
        fee_buffer == Max(Cent, 2 * fee_per_contract)
    IN  Min(10 * Cent, fee_buffer)

----------------------------------------------------------------------------
(* quoting.py: QuotingEngine *)

NoQuote == [price |-> None, qty |-> None]

prob_to_ticks(prob) == Max(1, Min(99, RoundHalfEven(prob, Cent)))

calculate_half_spread_zero(fo, match_phase) == 0

calculate_half_spread(fo, match_phase) ==
    LET base == IF match_phase = "INPLAY"
                THEN base_half_spread_inplay + adv_buffer_inplay
                ELSE base_half_spread_prematch + adv_buffer_prematch
        shock == IF fo.shock_score.num > fo.shock_score.den
                 THEN adv_buffer_shock ELSE 0
        fair_ticks == prob_to_ticks(fo.fair)
    IN  base + shock + fee_buffer_probability(fair_ticks)

calculate_size(price_ticks, visible_depth) ==
    LET max_contracts_notional == max_order_notional_cents \div Max(1, price_ticks)
        capped == Min(max_contracts_notional, max_contracts_per_order)
        max_contracts ==
            IF Truthy(visible_depth)
            THEN Min(capped,
                     Max(1, (visible_depth * max_size_vs_depth_ratio_pct) \div 100))
            ELSE capped
    IN  Max(1, max_contracts)

\* The post-only guards of calculate_quotes (lines 116-125).
guard_bid(bid_ticks, best_ask_price) ==
    IF Truthy(best_ask_price) /\ bid_ticks >= prob_to_ticks(best_ask_price)
    THEN Max(1, prob_to_ticks(best_ask_price) - 1)
    ELSE bid_ticks

guard_ask(ask_ticks, best_bid_price) ==
    IF Truthy(best_bid_price) /\ ask_ticks <= prob_to_ticks(best_bid_price)
    THEN Min(99, prob_to_ticks(best_bid_price) + 1)
    ELSE ask_ticks

calculate_quotes_any_stale(fo, snap, match_phase) ==
    IF fo.is_shocked
    THEN [bid |-> NoQuote, ask |-> NoQuote, reason |-> "shock_detected"]
    ELSE IF snap.kalshi_stale \/ snap.polymarket_stale
    THEN [bid |-> NoQuote, ask |-> NoQuote, reason |-> "data_stale"]
    ELSE
    LET half_spread == calculate_half_spread(fo, match_phase)
        bid0 == guard_bid(prob_to_ticks(fo.fair - half_spread), snap.kalshi_best_ask_price)
        ask0 == guard_ask(prob_to_ticks(fo.fair + half_spread), snap.kalshi_best_bid_price)
        widen == bid0 >= ask0 - 2
        mid_ticks == (bid0 + ask0) \div 2
        bid_ticks == IF widen THEN Max(1, mid_ticks - (half_spread \div Cent)) ELSE bid0
        ask_ticks == IF widen THEN Min(99, mid_ticks + (half_spread \div Cent)) ELSE ask0
        bid_qty == calculate_size(bid_ticks, snap.kalshi_best_bid_size)
        ask_qty == calculate_size(ask_ticks, snap.kalshi_best_ask_size)
    IN  [bid |-> IF bid_ticks < 1 \/ bid_ticks > 98 \/ bid_qty < 1
                 THEN NoQuote ELSE [price |-> bid_ticks, qty |-> bid_qty],
         ask |-> IF ask_ticks < 2 \/ ask_ticks > 99 \/ ask_qty < 1
                 THEN NoQuote ELSE [price |-> ask_ticks, qty |-> ask_qty],
         reason |-> "ok"]

calculate_quotes(fo, snap, match_phase) ==
    IF fo.is_shocked
    THEN [bid |-> NoQuote, ask |-> NoQuote, reason |-> "shock_detected"]
    ELSE IF snap.kalshi_stale /\ snap.polymarket_stale
    THEN [bid |-> NoQuote, ask |-> NoQuote, reason |-> "data_stale"]
    ELSE
    LET half_spread == calculate_half_spread(fo, match_phase)
        bid0 == guard_bid(prob_to_ticks(fo.fair - half_spread), snap.kalshi_best_ask_price)
        ask0 == guard_ask(prob_to_ticks(fo.fair + half_spread), snap.kalshi_best_bid_price)
        widen == bid0 >= ask0 - 2
        mid_ticks == (bid0 + ask0) \div 2
        bid_ticks == IF widen THEN Max(1, mid_ticks - (half_spread \div Cent)) ELSE bid0
        ask_ticks == IF widen THEN Min(99, mid_ticks + (half_spread \div Cent)) ELSE ask0
        bid_qty == calculate_size(bid_ticks, snap.kalshi_best_bid_size)
        ask_qty == calculate_size(ask_ticks, snap.kalshi_best_ask_size)
    IN  [bid |-> IF bid_ticks < 1 \/ bid_ticks > 98 \/ bid_qty < 1
                 THEN NoQuote ELSE [price |-> bid_ticks, qty |-> bid_qty],
         ask |-> IF ask_ticks < 2 \/ ask_ticks > 99 \/ ask_qty < 1
                 THEN NoQuote ELSE [price |-> ask_ticks, qty |-> ask_qty],
         reason |-> "ok"]

----------------------------------------------------------------------------
(* fair_price.py: FairPriceCalculator *)

NoEwma == [mid |-> None, vol |-> None]
ZeroScore == [num |-> 0, den |-> 1]

\* shock_score >= shock_score_threshold on the exact fraction, the threshold
\* in tenths.
score_at_least_threshold(score, threshold_x10) ==
    10 * score.num >= threshold_x10 * score.den

calculate_weight_stale_ignored(inp) ==
    LET base == IF inp.match_phase = "INPLAY"
                THEN w_poly_base_inplay ELSE w_poly_base_prematch
        adjusted ==
            IF inp.poly_spread = None THEN base
            ELSE IF inp.poly_spread <= poly_spread_narrow_threshold /\ inp.poly_depth_strong
            THEN base + poly_spread_narrow_bonus
            ELSE IF inp.poly_spread >= poly_spread_wide_threshold
            THEN base - poly_spread_wide_penalty
            ELSE base
    IN  Max(0, Min(95 * Cent, adjusted))

calculate_weight_wide_bonus(inp) ==
    LET base == IF inp.match_phase = "INPLAY"
                THEN w_poly_base_inplay ELSE w_poly_base_prematch
        adjusted ==
            IF inp.poly_spread = None THEN base
            ELSE IF inp.poly_spread <= poly_spread_narrow_threshold /\ inp.poly_depth_strong
            THEN base + poly_spread_narrow_bonus
            ELSE IF inp.poly_spread >= poly_spread_wide_threshold
            THEN base + poly_spread_wide_penalty
            ELSE base
    IN  IF inp.poly_stale THEN 0
        ELSE Max(0, Min(95 * Cent, adjusted))

calculate_weight(inp) ==
    LET base == IF inp.match_phase = "INPLAY"
                THEN w_poly_base_inplay ELSE w_poly_base_prematch
        adjusted ==
            IF inp.poly_spread = None THEN base
            ELSE IF inp.poly_spread <= poly_spread_narrow_threshold /\ inp.poly_depth_strong
            THEN base + poly_spread_narrow_bonus
            ELSE IF inp.poly_spread >= poly_spread_wide_threshold
            THEN base - poly_spread_wide_penalty
            ELSE base
    IN  IF inp.poly_stale THEN 0
        ELSE Max(0, Min(95 * Cent, adjusted))

weighted_average_swapped(w_poly, poly_mid, kalshi_mid) ==
    ((w_poly \div Cent) * kalshi_mid + (100 - (w_poly \div Cent)) * poly_mid) \div 100

\* w_poly * poly_mid + (1 - w_poly) * kalshi_mid, with the weight in hundredths.
weighted_average(w_poly, poly_mid, kalshi_mid) ==
    ((w_poly \div Cent) * poly_mid + (100 - (w_poly \div Cent)) * kalshi_mid) \div 100

calculate_fair(inp, w_poly) ==
    IF inp.poly_mid = None \/ w_poly = 0
    THEN IF inp.kalshi_mid = None THEN 50 * Cent ELSE inp.kalshi_mid
    ELSE IF inp.kalshi_mid = None THEN inp.poly_mid
    ELSE Max(Cent, Min(99 * Cent, weighted_average(w_poly, inp.poly_mid, inp.kalshi_mid)))

ewma_step_frozen(x, old) == old

\* One EWMA step with alpha = 0.1: alpha * x + (1 - alpha) * old.
ewma_step(x, old) == (x + 9 * old) \div 10

\* The score taken over the volatility held before the move is absorbed.
detect_shock_prior_volatility(inp, e) ==
    IF inp.poly_mid = None
    THEN [shock_score |-> ZeroScore, is_shocked |-> FALSE, ewma |-> e]
    ELSE IF e.mid = None
    THEN [shock_score |-> ZeroScore, is_shocked |-> FALSE,
          ewma |-> [mid |-> inp.poly_mid, vol |-> Cent]]
    ELSE
    LET change == Abs(inp.poly_mid - e.mid)
        score == [num |-> change, den |-> Max(Cent, e.vol)]
    IN  [shock_score |-> score,
         is_shocked |-> score_at_least_threshold(score, shock_score_threshold_x10),
         ewma |-> [mid |-> ewma_step(inp.poly_mid, e.mid),
                   vol |-> ewma_step(change, e.vol)]]

\* _detect_shock(inputs) on the detector state e: the result and the new state.
detect_shock(inp, e) ==
    IF inp.poly_mid = None
    THEN [shock_score |-> ZeroScore, is_shocked |-> FALSE, ewma |-> e]
    ELSE IF e.mid = None
    THEN [shock_score |-> ZeroScore, is_shocked |-> FALSE,
          ewma |-> [mid |-> inp.poly_mid, vol |-> Cent]]
    ELSE
    LET change == Abs(inp.poly_mid - e.mid)
        new_mid == ewma_step(inp.poly_mid, e.mid)
        new_vol == ewma_step(change, e.vol)
        score == [num |-> change, den |-> Max(Cent, new_vol)]
    IN  [shock_score |-> score,
         is_shocked |-> score_at_least_threshold(score, shock_score_threshold_x10),
         ewma |-> [mid |-> new_mid, vol |-> new_vol]]

\* calculate(inputs): the FairPriceOutput and the calculator's new EWMA state.
calculate(inp, e) ==
    LET w_poly == calculate_weight(inp)
        d == detect_shock(inp, e)
    IN  [fair |-> calculate_fair(inp, w_poly),
         w_poly |-> w_poly,
         shock_score |-> d.shock_score,
         is_shocked |-> d.is_shocked,
         ewma |-> d.ewma]

\* Whether calculate(inp) takes an EWMA update step (not the seeding one).
takes_ewma_step(inp, e) == inp.poly_mid # None /\ e.mid # None

----------------------------------------------------------------------------
(* market_data_store.py: MarketDataStore *)

NoSnapshot ==
    [present |-> FALSE, timestamp_ms |-> None,
     kalshi_best_bid_price |-> None, kalshi_best_bid_size |-> None,
     kalshi_best_ask_price |-> None, kalshi_best_ask_size |-> None,
     kalshi_mid |-> None, kalshi_stale |-> FALSE,
     polymarket_best_bid |-> None, polymarket_best_ask |-> None,
     polymarket_mid |-> None, polymarket_spread |-> None,
     polymarket_top_depth_bid |-> None, polymarket_top_depth_ask |-> None,
     polymarket_stale |-> FALSE]

\* No payload: tob is None / poly_data is None.
NoTob == [present |-> FALSE, yes_best_price |-> None, yes_best_qty |-> None,
          no_best_price |-> None, no_best_qty |-> None]
NoPoly == [present |-> FALSE, has_token |-> FALSE, best_bid |-> None, best_ask |-> None,
           best_bid_size |-> None, best_ask_size |-> None, timestamp_ms |-> None]

is_stale(now_ms, data_ts_ms, match_phase) ==
    LET stale_seconds == IF match_phase = "INPLAY"
                         THEN stale_seconds_inplay ELSE stale_seconds_prematch
    IN  now_ms - data_ts_ms > stale_seconds * 1000

snapshot_always_new(snap, now_ms) ==
    [NoSnapshot EXCEPT !.present = TRUE, !.timestamp_ms = now_ms]

\* The snapshot an update starts from: the stored one, or a new one stamped now.
snapshot_or_new(snap, now_ms) ==
    IF snap.present THEN snap
    ELSE [NoSnapshot EXCEPT !.present = TRUE, !.timestamp_ms = now_ms]

mid_of(bid, ask, has_bid, has_ask) ==
    IF has_bid /\ has_ask THEN (bid + ask) \div 2
    ELSE IF has_bid THEN bid
    ELSE IF has_ask THEN ask
    ELSE None

update_kalshi(snap, tob, match_phase, now_ms) ==
    LET s == snapshot_or_new(snap, now_ms)
        bid == IF Truthy(tob.yes_best_price) THEN tob.yes_best_price * Cent ELSE None
        ask == IF Truthy(tob.no_best_price) THEN tob.no_best_price * Cent ELSE None
    IN  IF tob.present
        THEN [s EXCEPT !.kalshi_best_bid_price = bid,
                       !.kalshi_best_bid_size =
                           IF Truthy(tob.yes_best_qty) THEN tob.yes_best_qty ELSE None,
                       !.kalshi_best_ask_price = ask,
                       !.kalshi_best_ask_size =
                           IF Truthy(tob.no_best_qty) THEN tob.no_best_qty ELSE None,
                       !.kalshi_mid = mid_of(bid, ask, Truthy(bid), Truthy(ask)),
                       !.timestamp_ms = now_ms,
                       !.kalshi_stale = FALSE]
        ELSE [s EXCEPT !.kalshi_stale = is_stale(now_ms, s.timestamp_ms, match_phase)]

update_polymarket(snap, poly_data, match_phase, now_ms) ==
    LET s == snapshot_or_new(snap, now_ms)
        both == poly_data.best_bid # None /\ poly_data.best_ask # None
    IN  IF poly_data.present /\ poly_data.has_token
        THEN [s EXCEPT !.polymarket_best_bid = poly_data.best_bid,
                       !.polymarket_best_ask = poly_data.best_ask,
                       !.polymarket_top_depth_bid = poly_data.best_bid_size,
                       !.polymarket_top_depth_ask = poly_data.best_ask_size,
                       !.polymarket_mid = mid_of(poly_data.best_bid, poly_data.best_ask,
                                                 poly_data.best_bid # None,
                                                 poly_data.best_ask # None),
                       !.polymarket_spread =
                           IF both THEN poly_data.best_ask - poly_data.best_bid ELSE None,
                       !.timestamp_ms = Max(s.timestamp_ms, poly_data.timestamp_ms),
                       !.polymarket_stale = FALSE]
        ELSE [s EXCEPT !.polymarket_stale = is_stale(now_ms, s.timestamp_ms, match_phase)]

----------------------------------------------------------------------------
(* state_machine.py: MarketStateMachine.  state_entered_ts_ms, which         *)
(* transition_to stamps and nothing reads, is left out, as is               *)
(* MarketContext.last_poly_update_ms.                                       *)

NewStateMachine(now_ms) ==
    [state |-> "INIT", pause_until_ts_ms |-> None, warmup_start_ts_ms |-> None]

transition_to(m, new_state, now_ms) ==
    IF m.state = new_state THEN m ELSE [m EXCEPT !.state = new_state]

set_pause_until_duration_only(m, pause_seconds, now_ms) ==
    transition_to([m EXCEPT !.pause_until_ts_ms = pause_seconds * 1000],
                  "PAUSED", now_ms)

set_pause_until(m, pause_seconds, now_ms) ==
    transition_to([m EXCEPT !.pause_until_ts_ms = now_ms + pause_seconds * 1000],
                  "PAUSED", now_ms)

can_exit_pause_ignoring_time(m, now_ms) == m.state = "PAUSED"

can_exit_pause(m, now_ms) ==
    IF m.state # "PAUSED" THEN FALSE
    ELSE IF m.pause_until_ts_ms = None THEN TRUE
    ELSE now_ms >= m.pause_until_ts_ms

start_warmup(m, now_ms) ==
    IF m.warmup_start_ts_ms = None THEN [m EXCEPT !.warmup_start_ts_ms = now_ms] ELSE m

is_warmup_complete_once_started(m, seconds, now_ms) == m.warmup_start_ts_ms # None

is_warmup_complete(m, seconds, now_ms) ==
    IF m.warmup_start_ts_ms = None THEN FALSE
    ELSE now_ms - m.warmup_start_ts_ms >= seconds * 1000

----------------------------------------------------------------------------
(* match_phase.py *)

get_match_phase(start_ms, scheduled_end_ms, stop_before_seconds, now_ms) ==
    IF now_ms < start_ms THEN "PREMATCH"
    ELSE IF now_ms >= scheduled_end_ms - stop_before_seconds * 1000 THEN "STOP_QUOTING"
    ELSE "INPLAY"

----------------------------------------------------------------------------
(* risk_manager.py: RiskManager.  Money is in cents; a price is in ticks. *)

NoPosition == [present |-> FALSE, net_contracts |-> 0, avg_entry_price |-> 0,
               realized_pnl_cents |-> 0, unrealized_pnl_cents |-> 0]

\* abs(net_contracts) * current_mid_price >= limit, with the mid in Unit.
check_position_limit(current_mid_price, net_contracts) ==
    ~ (Abs(net_contracts) * current_mid_price >= (max_position_notional_cents \div 100) * Unit)

check_total_notional(total_notional_cents) ==
    ~ (total_notional_cents >= max_total_notional_cents)

check_drawdown(realized_pnl_cents, unrealized_pnl_cents) ==
    LET total_pnl_cents == realized_pnl_cents + unrealized_pnl_cents
        drawdown_cents == Abs(Min(0, total_pnl_cents))
    IN  ~ (drawdown_cents >= drawdown_limit_cents)

update_position_unless_paused(r, market_id, pos) ==
    [r EXCEPT !.positions[market_id] =
                  IF market_id \in r.paused_markets THEN @ ELSE pos]

\* update_position(market_id, ...) on the risk state r: the new risk state.
update_position(r, market_id, pos) ==
    [r EXCEPT !.positions[market_id] = pos]

is_paused_never(r, market_id) == FALSE

\* is_paused(market_id) on the risk state r.
is_paused(r, market_id) == market_id \in r.paused_markets

\* Mutant: the cut-off compared with >=, keeping a fill exactly 60 s old.
in_window_inclusive(ts, now_ms) == ts >= now_ms - 60000

\* The entries check_fill_rate keeps: those stamped after now - 60 s.
in_window(ts, now_ms) == ts > now_ms - 60000

RECURSIVE clean_old_entries(_, _)
clean_old_entries(fills, now_ms) ==
    IF fills = <<>> THEN <<>>
    ELSE IF in_window(Head(fills).ts, now_ms)
    THEN <<Head(fills)>> \o clean_old_entries(Tail(fills), now_ms)
    ELSE clean_old_entries(Tail(fills), now_ms)

RECURSIVE sum_notional(_)
sum_notional(fills) ==
    IF fills = <<>> THEN 0 ELSE Head(fills).notional + sum_notional(Tail(fills))

\* check_fill_rate(market_id, fill_notional) on that market's window.
check_fill_rate(fills, fill_notional, now_ms) ==
    LET kept == Append(clean_old_entries(fills, now_ms),
                       [ts |-> now_ms, notional |-> fill_notional])
        total_minute == sum_notional(kept)
        breach == total_minute >= max_filled_notional_per_minute_cents
    IN  [fills |-> kept, total_minute |-> total_minute,
         ok |-> ~breach, pause_seconds |-> IF breach THEN 120 ELSE 0]

----------------------------------------------------------------------------
(* Exact comparison of two fractions a/b and c/d (b, d > 0) without         *)
(* multiplying them out: by their continued-fraction expansions.            *)

RECURSIVE FracEq(_, _, _, _)
FracEq(a, b, c, d) ==
    IF a \div b # c \div d THEN FALSE
    ELSE IF a % b = 0 \/ c % d = 0 THEN a % b = c % d
    ELSE FracEq(b, a % b, d, c % d)

RECURSIVE FracLeq(_, _, _, _)
FracLeq(a, b, c, d) ==
    IF a \div b # c \div d THEN a \div b < c \div d
    ELSE IF a % b = 0 THEN TRUE
    ELSE IF c % d = 0 THEN FALSE
    ELSE FracLeq(d, c % d, b, a % b)

ScoreEq(s, t) == FracEq(s.num, s.den, t.num, t.den)

----------------------------------------------------------------------------
(* The configured markets (SoccerConfig.markets) and the inputs explored *)

Markets == {"m1", "m2"}

TickMs == warmup_seconds * 1000          \* one clock step
MaxNow == MaxTicks * TickMs

kalshi_ticker(m) == IF m = "m1" THEN "T1" ELSE "T2"
Tickers == {"T1", "T2", "TX"}            \* TX is no configured market's ticker

\* m1 is pre-match at first, in play after one clock step and in its
\* stop-quoting window after two; m2 is in play throughout.
start_time_ms(m) == IF m = "m1" THEN TickMs ELSE 0
scheduled_end_time_ms(m) ==
    IF m = "m1" THEN 2 * TickMs + stop_before_end_seconds * 1000
    ELSE 2 * stop_before_end_seconds * 1000

phase_of(m, now_ms) ==
    get_match_phase(start_time_ms(m), scheduled_end_time_ms(m),
                    stop_before_end_seconds, now_ms)

Tob(yp, yq, np, nq) ==
    [present |-> TRUE, yes_best_price |-> yp, yes_best_qty |-> yq,
     no_best_price |-> np, no_best_qty |-> nq]

PolyWithoutToken(bid, ask, bid_size, ask_size, ts) ==
    [present |-> TRUE, has_token |-> FALSE, best_bid |-> bid, best_ask |-> ask,
     best_bid_size |-> bid_size, best_ask_size |-> ask_size, timestamp_ms |-> ts]

\* A venue-B answer: PolymarketMarketData holding the requested token.
Poly(bid, ask, bid_size, ask_size, ts) ==
    [present |-> TRUE, has_token |-> TRUE, best_bid |-> bid, best_ask |-> ask,
     best_bid_size |-> bid_size, best_ask_size |-> ask_size, timestamp_ms |-> ts]

\* Venue-A books pushed to the strategy: a two-sided book and, for m1, an
\* empty one.
TobInputs(t) ==
    {Tob(40, 40, 60, 40)} \cup (IF t = "T1" THEN {Tob(None, None, None, None)} ELSE {})

\* Venue-B answers: for m1 a calm narrow deep book and a re-priced one, for m2
\* the re-priced one.
PolyInputs(m, ts) ==
    {Poly(78 * Cent, 82 * Cent, 50, 50, ts)}
        \cup (IF m = "m1" THEN {Poly(49 * Cent, 51 * Cent, 200, 200, ts)} ELSE {})

\* The markets the risk owner pauses and reports positions for.
RiskMarkets == {"m1"}

PositionInputs ==
    {[present |-> TRUE, net_contracts |-> 10, avg_entry_price |-> 50,
      realized_pnl_cents |-> 0, unrealized_pnl_cents |-> 0],
     [present |-> TRUE, net_contracts |-> 100, avg_entry_price |-> 50,
      realized_pnl_cents |-> 0 - 1000, unrealized_pnl_cents |-> 0 - 5000]}

----------------------------------------------------------------------------
(* soccer_strategy.py: SoccerMarketMakerStrategy *)

find_context_or_first(ticker) ==
    IF \E m \in Markets : kalshi_ticker(m) = ticker
    THEN CHOOSE m \in Markets : kalshi_ticker(m) = ticker
    ELSE "m2"

find_context_by_ticker(ticker) ==
    IF \E m \in Markets : kalshi_ticker(m) = ticker
    THEN CHOOSE m \in Markets : kalshi_ticker(m) = ticker
    ELSE "none"

has_kalshi(snap) == ~snap.kalshi_stale /\ snap.kalshi_mid # None
has_poly(snap) == ~snap.polymarket_stale /\ snap.polymarket_mid # None

\* The state transitions of _update_state_machine below the STOP_QUOTING
\* check (lines 207-240).
state_transitions(m, snap, match_phase, paused, now_ms) ==
    IF m.state = "INIT"
    THEN start_warmup(transition_to(m, "WAIT_DATA", now_ms), now_ms)
    ELSE IF m.state = "WAIT_DATA"
    THEN IF has_kalshi(snap) /\ has_poly(snap)
         THEN IF is_warmup_complete(m, warmup_seconds, now_ms) /\ ~paused
              THEN transition_to(m, "QUOTING", now_ms)
              ELSE m
         ELSE [m EXCEPT !.warmup_start_ts_ms = None]
    ELSE IF m.state = "QUOTING"
    THEN IF snap.kalshi_stale /\ snap.polymarket_stale
         THEN transition_to(m, "PAUSED", now_ms)
         ELSE IF paused THEN transition_to(m, "PAUSED", now_ms)
         ELSE m
    ELSE IF m.state = "PAUSED"
    THEN IF can_exit_pause(m, now_ms)
            /\ has_kalshi(snap) /\ has_poly(snap) /\ match_phase # "STOP_QUOTING"
            /\ ~paused
         THEN transition_to(m, "QUOTING", now_ms)
         ELSE m
    ELSE m

\* Mutant: the INIT case written as the chain's default branch, so that a
\* DONE market restarts.
update_state_machine_init_default(m, snap, match_phase, paused, now_ms) ==
    IF match_phase = "STOP_QUOTING" THEN transition_to(m, "DONE", now_ms)
    ELSE IF m.state \in {"WAIT_DATA", "QUOTING", "PAUSED"}
    THEN state_transitions(m, snap, match_phase, paused, now_ms)
    ELSE start_warmup(transition_to(m, "WAIT_DATA", now_ms), now_ms)

update_state_machine_no_stop(m, snap, match_phase, paused, now_ms) ==
    state_transitions(m, snap, match_phase, paused, now_ms)

\* _update_state_machine(context, snapshot, match_phase)
update_state_machine(m, snap, match_phase, paused, now_ms) ==
    IF match_phase = "STOP_QUOTING" THEN transition_to(m, "DONE", now_ms)
    ELSE state_transitions(m, snap, match_phase, paused, now_ms)

\* The FairPriceInputs _calculate_quotes builds from the snapshot.
fair_inputs(snap, match_phase) ==
    [poly_mid |-> snap.polymarket_mid,
     poly_spread |-> snap.polymarket_spread,
     poly_stale |-> snap.polymarket_stale,
     poly_depth_strong |->
         /\ snap.polymarket_top_depth_bid # None
         /\ snap.polymarket_top_depth_ask # None
         /\ snap.polymarket_top_depth_bid > 100
         /\ snap.polymarket_top_depth_ask > 100,
     kalshi_mid |-> snap.kalshi_mid,
     kalshi_stale |-> snap.kalshi_stale,
     match_phase |-> match_phase]

NoFair == [fair |-> None, w_poly |-> None, shock_score |-> ZeroScore,
           is_shocked |-> FALSE, ewma |-> NoEwma]

NoOut == [op |-> "none", market |-> "none", evaluated |-> FALSE,
          yes |-> NoQuote, no |-> NoQuote, reason |-> "",
          fo |-> NoFair, ref |-> NoFair, first |-> FALSE, ok |-> TRUE,
          total_minute |-> 0, pause_seconds |-> 0]

Quoted(o) == o.yes # NoQuote \/ o.no # NoQuote

----------------------------------------------------------------------------
(* State after construction *)

NoArg == [kind |-> "none"]

InitHist ==
    [ref |-> [m \in Markets |-> NoEwma],       \* the EWMA a detector of m alone would hold
     lastA |-> [m \in Markets |-> None],       \* time of m's last venue-A update
     lastB |-> [m \in Markets |-> None],       \* time of m's last venue-B update
     after_done |-> {},                        \* markets sent a venue-A event when DONE
     fills |-> <<>>]                           \* every fill given to check_fill_rate

InitRisk ==
    [positions |-> [m \in Markets |-> NoPosition],
     fill_notional_by_market |-> [m \in Markets |-> <<>>],
     paused_markets |-> {}]

\* SoccerMarketMakerStrategy.__init__: fresh components, one context per market.
Constructed ==
    /\ now = 0
    /\ sm = [m \in Markets |-> NewStateMachine(0)]
    /\ snapshots = [m \in Markets |-> NoSnapshot]
    /\ ewma = NoEwma
    /\ obs = 0
    /\ risk = InitRisk
    /\ out = NoOut
    /\ hist = InitHist

Init == Constructed /\ arg = NoArg

----------------------------------------------------------------------------
(* The strategy's handlers *)

\* _calculate_quotes(context, snapshot, match_phase, tob), for a market whose
\* state machine m1 is in QUOTING: the new state machine, calculator state
\* and the DesiredQuotes returned.
strategy_calculate_quotes(m1, snap, match_phase, e, now_ms) ==
    LET fo == calculate(fair_inputs(snap, match_phase), e)
        q == calculate_quotes(fo, snap, match_phase)
    IN  IF fo.is_shocked
        THEN [sm |-> set_pause_until(m1, pause_seconds_shock, now_ms), fo |-> fo,
              yes |-> NoQuote, no |-> NoQuote, reason |-> "shock"]
        ELSE IF q.reason # "ok"
        THEN [sm |-> m1, fo |-> fo, yes |-> NoQuote, no |-> NoQuote, reason |-> q.reason]
        ELSE [sm |-> m1, fo |-> fo, yes |-> q.bid, no |-> q.ask, reason |-> "ok"]

\* on_market_event(market_ticker, ob), with tob = ob.top_of_book(market_ticker):
\* what the handler does to the strategy and what it returns.
on_market_event(ticker, tob) ==
    LET id == find_context_by_ticker(ticker) IN
    IF id = "none" \/ ~tob.present
    THEN /\ out' = NoOut
         /\ UNCHANGED <<now, sm, snapshots, ewma, obs, risk, hist>>
    ELSE
    LET match_phase == phase_of(id, now)
        snap == update_kalshi(snapshots[id], tob, match_phase, now)
        m1 == update_state_machine(sm[id], snap, match_phase,
                                   is_paused(risk, id), now)
        inp == fair_inputs(snap, match_phase)
        r == strategy_calculate_quotes(m1, snap, match_phase, ewma, now)
        ref == calculate(inp, hist.ref[id])
    IN  /\ snapshots' = [snapshots EXCEPT ![id] = snap]
        /\ IF m1.state = "QUOTING"
           THEN /\ takes_ewma_step(inp, ewma) => obs < MaxObs
                /\ sm' = [sm EXCEPT ![id] = r.sm]
                /\ ewma' = r.fo.ewma
                /\ obs' = IF takes_ewma_step(inp, ewma) THEN obs + 1 ELSE obs
                /\ out' = [NoOut EXCEPT
                             !.op = "on_market_event", !.market = id,
                             !.evaluated = TRUE, !.yes = r.yes, !.no = r.no,
                             !.reason = r.reason, !.fo = r.fo, !.ref = ref,
                             !.first = (inp.poly_mid # None /\ hist.ref[id].mid = None)]
                /\ hist' = [hist EXCEPT !.ref[id] = ref.ewma]
           ELSE /\ sm' = [sm EXCEPT ![id] = m1]
                /\ out' = [NoOut EXCEPT !.op = "on_market_event", !.market = id]
                /\ hist' = IF sm[id].state = "DONE"
                           THEN [hist EXCEPT !.after_done = @ \cup {id}] ELSE hist
                /\ UNCHANGED <<ewma, obs>>
        /\ UNCHANGED <<now, risk>>

\* The engine's call of on_market_event.
OnMarketEvent(ticker, tob) == on_market_event(ticker, tob) /\ UNCHANGED arg

\* A poll that goes on to update the state machine on the snapshot it wrote.
PollMarketEvaluates(id, poly_data) ==
    LET match_phase == phase_of(id, now)
        snap == update_polymarket(snapshots[id], poly_data, match_phase, now)
    IN
    IF match_phase = "STOP_QUOTING" \/ ~poly_data.present
    THEN /\ out' = NoOut
         /\ UNCHANGED <<now, sm, snapshots, ewma, obs, risk, arg, hist>>
    ELSE /\ snapshots' = [snapshots EXCEPT ![id] = snap]
         /\ sm' = [sm EXCEPT ![id] = update_state_machine(@, snap, match_phase,
                                                          is_paused(risk, id), now)]
         /\ out' = NoOut
         /\ UNCHANGED <<now, ewma, obs, risk, arg, hist>>

\* _poll_market(context), the venue-B request answering poly_data (NoPoly: it failed)
PollMarket(id, poly_data) ==
    LET match_phase == phase_of(id, now) IN
    IF match_phase = "STOP_QUOTING" \/ ~poly_data.present
    THEN /\ out' = NoOut
         /\ UNCHANGED <<now, sm, snapshots, ewma, obs, risk, arg, hist>>
    ELSE /\ snapshots' = [snapshots EXCEPT
                            ![id] = update_polymarket(snapshots[id], poly_data, match_phase, now)]
         /\ out' = NoOut
         /\ UNCHANGED <<now, sm, ewma, obs, risk, arg, hist>>

\* The wall clock advances by d, up to limit.
Advance(d, limit) ==
    /\ now + d <= limit
    /\ now' = now + d
    /\ out' = NoOut
    /\ UNCHANGED <<sm, snapshots, ewma, obs, risk, arg, hist>>

Tick == Advance(TickMs, MaxNow)

\* RiskManager.pause_market / unpause_market / update_position, called by the
\* strategy's owner as risk decisions and fill reports arrive.
PauseMarket(id) ==
    /\ risk' = [risk EXCEPT !.paused_markets = @ \cup {id}]
    /\ out' = NoOut
    /\ UNCHANGED <<now, sm, snapshots, ewma, obs, arg, hist>>

UnpauseMarket(id) ==
    /\ risk' = [risk EXCEPT !.paused_markets = @ \ {id}]
    /\ out' = NoOut
    /\ UNCHANGED <<now, sm, snapshots, ewma, obs, arg, hist>>

UpdatePosition(id, pos) ==
    /\ risk' = update_position(risk, id, pos)
    /\ out' = NoOut
    /\ UNCHANGED <<now, sm, snapshots, ewma, obs, arg, hist>>

Next ==
    \/ \E t \in Tickers : \E tob \in TobInputs(t) \cup {NoTob} : OnMarketEvent(t, tob)
    \/ \E m \in Markets : \E d \in PolyInputs(m, now) \cup {NoPoly} : PollMarket(m, d)
    \/ Tick
    \/ \E m \in RiskMarkets : PauseMarket(m)
    \/ \E m \in RiskMarkets : UnpauseMarket(m)

Spec == Init /\ [][Next]_vars

----------------------------------------------------------------------------
(* The quote policy alone: QuotingEngine.calculate_quotes applied to a fair *)
(* price output, a venue-A book and a phase drawn from bounded sets.        *)

FairTicks == {1, 2, 14, 15, 30, 50, 70, 85, 86, 98, 99}
RestingTicks == {None, 1, 2, 15, 30, 49, 50, 51, 85, 98, 99}
DepthInputs == {None, 3, 40}
Phases == {"PREMATCH", "INPLAY"}

\* A fair price output with the given fair price; soft is whether the shock
\* score is above the soft trigger 1.0 (and below the threshold).
FairOutput(fair, soft, shocked) ==
    [fair |-> fair, w_poly |-> w_poly_base_prematch,
     shock_score |-> IF shocked THEN [num |-> 4, den |-> 1]
                     ELSE IF soft THEN [num |-> 2, den |-> 1] ELSE ZeroScore,
     is_shocked |-> shocked, ewma |-> NoEwma]

\* A snapshot holding the venue-A book bid/ask (ticks, None: that side is empty).
BookSnapshot(bid, ask, bid_size, ask_size, kalshi_stale, polymarket_stale) ==
    [NoSnapshot EXCEPT
        !.present = TRUE, !.timestamp_ms = 0,
        !.kalshi_best_bid_price = IF bid = None THEN None ELSE bid * Cent,
        !.kalshi_best_ask_price = IF ask = None THEN None ELSE ask * Cent,
        !.kalshi_best_bid_size = IF bid = None THEN None ELSE bid_size,
        !.kalshi_best_ask_size = IF ask = None THEN None ELSE ask_size,
        !.kalshi_mid = mid_of(bid * Cent, ask * Cent, bid # None, ask # None),
        !.kalshi_stale = kalshi_stale,
        !.polymarket_stale = polymarket_stale]

QuoteArgs ==
    {[kind |-> "quote", fo |-> FairOutput(f * Cent, soft, shocked),
      snap |-> BookSnapshot(b, a, d, d, ks, ps), match_phase |-> ph] :
        f \in FairTicks, soft \in BOOLEAN, shocked \in {FALSE},
        b \in RestingTicks, a \in RestingTicks, d \in {40},
        ks \in {FALSE}, ps \in BOOLEAN, ph \in Phases}
    \cup
    {[kind |-> "quote", fo |-> FairOutput(f * Cent, FALSE, shocked),
      snap |-> BookSnapshot(40, 60, d, d, ks, ps), match_phase |-> "INPLAY"] :
        f \in {1, 50, 99}, shocked \in BOOLEAN, d \in DepthInputs,
        ks \in BOOLEAN, ps \in BOOLEAN}

InitQuote == Constructed /\ arg \in QuoteArgs

CallQuote ==
    /\ arg.kind = "quote"
    /\ out = NoOut
    /\ LET q == calculate_quotes(arg.fo, arg.snap, arg.match_phase)
       IN  out' = [NoOut EXCEPT !.op = "calculate_quotes", !.evaluated = TRUE,
                                !.yes = q.bid, !.no = q.ask, !.reason = q.reason]
    /\ UNCHANGED <<now, sm, snapshots, ewma, obs, risk, arg, hist>>

SpecQuote == InitQuote /\ [][CallQuote]_vars

\* The resting venue-A book of the call, in ticks.
RestingBid == prob_to_ticks(arg.snap.kalshi_best_bid_price)
RestingAsk == prob_to_ticks(arg.snap.kalshi_best_ask_price)
HasRestingBid == arg.snap.kalshi_best_bid_price # None
HasRestingAsk == arg.snap.kalshi_best_ask_price # None

\* C1: the quote policy never returns a bid at or above the resting best ask,
\* nor an ask at or below the resting best bid, whatever the fair price and
\* the resting book (resting ask at tick 1 and resting bid at tick 99 included).
C1_PostOnly ==
    out.op = "calculate_quotes" =>
        /\ (out.yes # NoQuote /\ HasRestingAsk) => out.yes.price < RestingAsk
        /\ (out.no # NoQuote /\ HasRestingBid) => out.no.price > RestingBid

----------------------------------------------------------------------------
(* Lifecycle *)

GoodTob == Tob(40, 40, 60, 40)

\* The strategy serving the market that is in play throughout, with every
\* venue-A book and venue-B answer explored and risk pauses of that market,
\* while the clock advances as long as it can.
WaitMarkets == {"m2"}

WaitEvent ==
    \E m \in WaitMarkets : \E tob \in {GoodTob, Tob(None, None, None, None), NoTob} :
        OnMarketEvent(kalshi_ticker(m), tob)
WaitPoll ==
    \E m \in WaitMarkets : \E d \in PolyInputs("m1", now) \cup {NoPoly} : PollMarket(m, d)
NextWait ==
    \/ WaitEvent
    \/ WaitPoll
    \/ Tick
    \/ \E m \in WaitMarkets : PauseMarket(m)
    \/ \E m \in WaitMarkets : UnpauseMarket(m)

FairSpec == Init /\ [][NextWait]_vars /\ WF_vars(Tick)

\* What _update_state_machine asks of a market before it lets it quote: both
\* venues fresh with mids, not risk-paused, phase not terminal.
DataGood(e) ==
    /\ has_kalshi(snapshots[e]) /\ has_poly(snapshots[e])
    /\ e \notin risk.paused_markets
    /\ phase_of(e, now) # "STOP_QUOTING"

\* The strategy has just handled a venue-A event of market e.
EventHandled(e) == out.op = "on_market_event" /\ out.market = e

\* C3: a market in WAIT_DATA with at least the warmup duration of clock left,
\* whose data stays good from then on (both venues fresh with mids, not
\* risk-paused, phase not terminal) and whose venue-A events keep being
\* handled, eventually reaches QUOTING, also when an earlier evaluation in
\* WAIT_DATA reset the warmup.
C3_WaitDataLiveness ==
    \A e \in WaitMarkets :
        []((/\ sm[e].state = "WAIT_DATA"
            /\ now + warmup_seconds * 1000 <= MaxNow
            /\ []DataGood(e)
            /\ []<>EventHandled(e))
              => <>(sm[e].state = "QUOTING"))

----------------------------------------------------------------------------
(* The risk gate: the strategy serving the in-play market while its owner   *)
(* reports positions and fills to the risk manager.                         *)

\* RiskManager.check_fill_rate(market_id, fill_notional) called at the clock's
\* time; hist.fills records every fill ever passed in and what the call said.
CheckFillRate(id, fill_notional) ==
    /\ Len(hist.fills) < MaxFills
    /\ LET r == check_fill_rate(risk.fill_notional_by_market[id], fill_notional, now)
       IN  /\ risk' = [risk EXCEPT !.fill_notional_by_market[id] = r.fills]
           /\ out' = [NoOut EXCEPT !.op = "check_fill_rate", !.market = id, !.ok = r.ok,
                                   !.total_minute = r.total_minute,
                                   !.pause_seconds = r.pause_seconds]
           /\ hist' = [hist EXCEPT !.fills = Append(@, [market |-> id, ts |-> now,
                                                        notional |-> fill_notional,
                                                        ok |-> r.ok])]
    /\ UNCHANGED <<now, sm, snapshots, ewma, obs, arg>>

NextGate ==
    \/ WaitEvent
    \/ WaitPoll
    \/ Tick
    \/ \E m \in WaitMarkets, pos \in PositionInputs : UpdatePosition(m, pos)
    \/ \E m \in WaitMarkets : CheckFillRate(m, 2500)

SpecGate == Init /\ [][NextGate]_vars

\* The aggregate notional of the reported positions, in cents.
RECURSIVE SumPositions(_)
SumPositions(ms) ==
    IF ms = {} THEN 0
    ELSE LET m == CHOOSE x \in ms : TRUE
         IN  Abs(risk.positions[m].net_contracts) * risk.positions[m].avg_entry_price
                 + SumPositions(ms \ {m})

\* The four limits as they stand for market m at price mid.
RiskChecksOk(m, mid) ==
    /\ check_position_limit(mid, risk.positions[m].net_contracts)
    /\ check_total_notional(SumPositions(Markets))
    /\ check_drawdown(risk.positions[m].realized_pnl_cents,
                      risk.positions[m].unrealized_pnl_cents)
    /\ sum_notional(clean_old_entries(risk.fill_notional_by_market[m], now))
           < max_filled_notional_per_minute_cents

\* C4: every quoting decision is gated by the risk limits: on_market_event
\* returns a non-empty desired quote for a market only if, for the positions
\* and fills reported so far, its position-notional check, the total-notional
\* check, the fill-rate check and the drawdown check are all ok; after a
\* breach there is no quote.
C4_RiskGated ==
    (out.op = "on_market_event" /\ Quoted(out)) => RiskChecksOk(out.market, out.fo.fair)

----------------------------------------------------------------------------
(* The fair price alone: FairPriceCalculator.calculate on a fresh           *)
(* calculator, its inputs drawn from bounded sets.                          *)

PolyMids == {None, 0, Cent, 50 * Cent, 99 * Cent, Unit}
KalshiMids == {None, Cent, 50 * Cent, 99 * Cent}
PolySpreads == {None, 0, 2 * Cent, 3 * Cent, 6 * Cent, 10 * Cent}

FairArgs ==
    {[kind |-> "fair",
      inp |-> [poly_mid |-> pm, poly_spread |-> IF pm = None THEN None ELSE sp,
               poly_stale |-> ps, poly_depth_strong |-> ds,
               kalshi_mid |-> km, kalshi_stale |-> FALSE, match_phase |-> ph]] :
        pm \in PolyMids, km \in KalshiMids, sp \in PolySpreads,
        ps \in BOOLEAN, ds \in BOOLEAN, ph \in Phases}

InitFair == Constructed /\ arg \in FairArgs

CallFair ==
    /\ arg.kind = "fair"
    /\ out = NoOut
    /\ LET fo == calculate(arg.inp, ewma)
       IN  /\ out' = [NoOut EXCEPT !.op = "calculate", !.evaluated = TRUE, !.fo = fo]
           /\ ewma' = fo.ewma
    /\ UNCHANGED <<now, sm, snapshots, obs, risk, arg, hist>>

SpecFair == InitFair /\ [][CallFair]_vars

\* C5: the fused probability every evaluation returns lies in [0.01, 0.99],
\* whichever mids are present (venue-B mids 0.0 and 1.0 included) and whether
\* or not venue B is stale.
C5_FairInRange ==
    out.op = "calculate" => (Cent <= out.fo.fair /\ out.fo.fair <= 99 * Cent)

----------------------------------------------------------------------------
(* The shock detector across markets (specification Spec) *)

\* C6: shock-detector state is per market: the shock score and flag an
\* evaluation of a market returns are those a detector fed only that market's
\* evaluations would return, however evaluations of other markets interleave.
C6_DetectorPerEvent ==
    (out.op = "on_market_event" /\ out.evaluated) =>
        /\ out.fo.is_shocked = out.ref.is_shocked
        /\ ScoreEq(out.fo.shock_score, out.ref.shock_score)

\* C7: the first evaluation of a market that carries a venue-B mid returns
\* shock flag false, whatever evaluations were made for other markets before.
C7_FirstNeverShocks ==
    (out.op = "on_market_event" /\ out.evaluated /\ out.first) => ~out.fo.is_shocked

----------------------------------------------------------------------------
(* The market data store alone: update_kalshi, update_polymarket and        *)
(* get_snapshot called as the clock advances; hist.lastA and hist.lastB     *)
(* record when each venue last delivered data for a market.                 *)

StoreUpdateKalshi(id, tob) ==
    /\ snapshots' = [snapshots EXCEPT
                       ![id] = update_kalshi(snapshots[id], tob, phase_of(id, now), now)]
    /\ hist' = IF tob.present THEN [hist EXCEPT !.lastA[id] = now] ELSE hist
    /\ out' = [NoOut EXCEPT !.op = "update_kalshi", !.market = id,
                            !.reason = IF tob.present THEN "payload" ELSE "no_payload"]
    /\ UNCHANGED <<now, sm, ewma, obs, risk, arg>>

StoreUpdatePolymarket(id, poly_data) ==
    /\ snapshots' = [snapshots EXCEPT
                       ![id] = update_polymarket(snapshots[id], poly_data,
                                                 phase_of(id, now), now)]
    /\ hist' = IF poly_data.present THEN [hist EXCEPT !.lastB[id] = now] ELSE hist
    /\ out' = [NoOut EXCEPT !.op = "update_polymarket", !.market = id,
                            !.reason = IF poly_data.present THEN "payload" ELSE "no_payload"]
    /\ UNCHANGED <<now, sm, ewma, obs, risk, arg>>

\* get_snapshot(market_id): returns the stored snapshot as it is.
StoreGet(id) ==
    /\ snapshots[id].present
    /\ out' = [NoOut EXCEPT !.op = "get_snapshot", !.market = id]
    /\ UNCHANGED <<now, sm, snapshots, ewma, obs, risk, arg, hist>>

NextStore ==
    \/ \E m \in Markets : \E tob \in {GoodTob, NoTob} : StoreUpdateKalshi(m, tob)
    \/ \E m \in Markets : \E d \in PolyInputs(m, now) \cup {NoPoly} :
           StoreUpdatePolymarket(m, d)
    \/ \E m \in Markets : StoreGet(m)
    \/ Tick

SpecStore == Init /\ [][NextStore]_vars

\* Venue A's (B's) last data for m is older than the phase's threshold.
AgedA(m) == hist.lastA[m] # None /\ is_stale(now, hist.lastA[m], phase_of(m, now))
AgedB(m) == hist.lastB[m] # None /\ is_stale(now, hist.lastB[m], phase_of(m, now))

\* C8: staleness follows the wall clock: the snapshot get_snapshot returns
\* reports a venue as stale whenever that venue's last update is older than
\* the phase's threshold, also when no update call was made since.
C8_StaleByClock ==
    out.op = "get_snapshot" =>
        /\ AgedA(out.market) => snapshots[out.market].kalshi_stale
        /\ AgedB(out.market) => snapshots[out.market].polymarket_stale

\* C9: each venue's staleness comes from the age of its own last update: a
\* staleness flag recomputed by an update call without payload says stale
\* exactly when that venue's own last data is older than the threshold, so
\* that fresh data from the other venue never makes it appear fresh.
C9_OwnTimestamp ==
    /\ (out.op = "update_polymarket" /\ out.reason = "no_payload"
            /\ hist.lastB[out.market] # None)
        => (snapshots[out.market].polymarket_stale <=> AgedB(out.market))
    /\ (out.op = "update_kalshi" /\ out.reason = "no_payload"
            /\ hist.lastA[out.market] # None)
        => (snapshots[out.market].kalshi_stale <=> AgedA(out.market))

----------------------------------------------------------------------------
(* The fill-rate window alone: check_fill_rate called for both markets as   *)
(* the clock advances by half-minutes.                                      *)

HalfMinuteMs == (60 * 1000) \div 2
HalfMinute == Advance(HalfMinuteMs, MaxTicks * HalfMinuteMs)

FillInputs == {500, 1500}

NextRisk ==
    \/ \E m \in Markets, n \in FillInputs : CheckFillRate(m, n)
    \/ HalfMinute

SpecRisk == Init /\ [][NextRisk]_vars

\* The notional of the fills of market m in fs stamped less than 60 s before t.
RECURSIVE TrailingMinute(_, _, _)
TrailingMinute(fs, m, t) ==
    IF fs = <<>> THEN 0
    ELSE (IF Head(fs).market = m /\ t - Head(fs).ts < 60 * 1000
          THEN Head(fs).notional ELSE 0) + TrailingMinute(Tail(fs), m, t)

\* C10: the total check_fill_rate computes for a market is the notional of
\* that market's fills recorded within the trailing 60 seconds of the call
\* (the fill passed in included): a fill stamped 60 seconds or more before a
\* call never contributes to it.
C10_TrailingMinute ==
    out.op = "check_fill_rate" =>
        /\ out.total_minute = TrailingMinute(hist.fills, out.market, now)
        /\ out.ok <=> out.total_minute < max_filled_notional_per_minute_cents

\* A call made when the market has a fill exactly 60 s old and a younger one.
C10_Witness ==
    /\ out.op = "check_fill_rate"
    /\ \E i, j \in 1..Len(hist.fills) :
          /\ hist.fills[i].market = out.market /\ now - hist.fills[i].ts = 60 * 1000
          /\ hist.fills[j].market = out.market /\ hist.fills[j].ts < now
          /\ now - hist.fills[j].ts < 60 * 1000

----------------------------------------------------------------------------
(* The shock detector alone: one FairPriceCalculator fed a sequence of      *)
(* venue-B mids (venue A absent, venue B fresh).  arg holds the inputs of   *)
(* the last call and the EWMA state the calculator held when it was made.   *)

ObservedMids == {None, 20 * Cent, 50 * Cent, 52 * Cent, 54 * Cent, 80 * Cent}

ObserveInputs(pm) ==
    [poly_mid |-> pm, poly_spread |-> None, poly_stale |-> FALSE,
     poly_depth_strong |-> FALSE, kalshi_mid |-> None, kalshi_stale |-> FALSE,
     match_phase |-> "INPLAY"]

Observe(pm) ==
    LET inp == ObserveInputs(pm)
        fo == calculate(inp, ewma)
    IN  /\ takes_ewma_step(inp, ewma) => obs < MaxObs
        /\ ewma' = fo.ewma
        /\ obs' = IF takes_ewma_step(inp, ewma) THEN obs + 1 ELSE obs
        /\ arg' = [kind |-> "observe", inp |-> inp, before |-> ewma]
        /\ out' = [NoOut EXCEPT !.op = "calculate", !.evaluated = TRUE, !.fo = fo]
        /\ UNCHANGED <<now, sm, snapshots, risk, hist>>

NextDetector == \E pm \in ObservedMids : Observe(pm)

SpecDetector == Init /\ [][NextDetector]_vars

\* The last call was an observation with a venue-B mid on a seeded calculator.
ObservedOnSeeded ==
    arg.kind = "observe" /\ arg.inp.poly_mid # None /\ arg.before.mid # None

\* C11: the shock score is |new venue-B mid - EWMA mean| / max(EWMA
\* volatility, 0.01) on the EWMA values held before the observation is
\* absorbed; from mean 0.50 and volatility 0.01 a mid of 0.80 scores 30.
C11_ScoreFromPriorEwma ==
    ObservedOnSeeded =>
        FracEq(out.fo.shock_score.num, out.fo.shock_score.den,
               Abs(arg.inp.poly_mid - arg.before.mid), Max(arg.before.vol, Cent))

----------------------------------------------------------------------------
(* Staleness pauses: the strategy serving the in-play market while the      *)
(* store's flags are refreshed by payload-less updates and the state        *)
(* machine is updated on the stored snapshot, over a horizon one shock      *)
(* pause longer than MaxNow.                                                *)

LongTick == Advance(TickMs, MaxNow + pause_seconds_shock * 1000)

BothStale(snap) == snap.kalshi_stale /\ snap.polymarket_stale

\* _update_state_machine(context, get_snapshot(id), phase) on the stored snapshot.
EvaluateStored(id) ==
    /\ snapshots[id].present
    /\ sm' = [sm EXCEPT ![id] = update_state_machine(sm[id], snapshots[id], phase_of(id, now),
                                                     is_paused(risk, id), now)]
    /\ out' = [NoOut EXCEPT
                 !.op = "update_state_machine", !.market = id,
                 !.reason = IF sm[id].state = "QUOTING" /\ BothStale(snapshots[id])
                            THEN "quoting_both_stale" ELSE ""]
    /\ UNCHANGED <<now, snapshots, ewma, obs, risk, arg, hist>>

NextStale ==
    \/ WaitEvent
    \/ WaitPoll
    \/ LongTick
    \/ \E m \in WaitMarkets : StoreUpdateKalshi(m, NoTob)
    \/ \E m \in WaitMarkets : StoreUpdatePolymarket(m, NoPoly)
    \/ \E m \in WaitMarkets : EvaluateStored(m)

SpecStale == Init /\ [][NextStale]_vars

\* C12: an evaluation of a market in QUOTING whose snapshot has both venues
\* stale leaves it PAUSED with resume-at unset, whatever the market's
\* history (an earlier shock pause since resumed included).
C12_StalePauseNoResumeAt ==
    (out.op = "update_state_machine" /\ out.reason = "quoting_both_stale") =>
        /\ sm[out.market].state = "PAUSED"
        /\ sm[out.market].pause_until_ts_ms = None

----------------------------------------------------------------------------
(* The venue-B weight and the fusion (specification SpecFair) *)

\* C13: the venue-B weight every evaluation returns lies in [0, 0.95] and is
\* exactly 0 whenever venue B is stale, for every phase, spread and depth flag.
C13_WeightInRange ==
    (out.op = "calculate" /\ arg.kind = "fair") =>
        /\ 0 <= out.fo.w_poly /\ out.fo.w_poly <= 95 * Cent
        /\ arg.inp.poly_stale => out.fo.w_poly = 0

C13_Witness ==
    /\ out.op = "calculate" /\ arg.kind = "fair"
    /\ arg.inp.poly_stale /\ arg.inp.poly_depth_strong
    /\ arg.inp.poly_spread = 0 /\ arg.inp.match_phase = "INPLAY"
    /\ out.fo.w_poly = 0

\* C14: with the phase, the depth flag and the staleness fixed, the weight is
\* monotone non-increasing in the venue-B spread over spreads above the narrow
\* threshold: the weight returned for a spread is at most the weight of every
\* smaller such spread and at least that of every larger one.
C14_WeightMonotone ==
    LET above == {sp \in PolySpreads \ {None} : sp > poly_spread_narrow_threshold}
    IN  (out.op = "calculate" /\ arg.kind = "fair" /\ arg.inp.poly_spread \in above) =>
            \A sp \in above :
                LET other == calculate_weight([arg.inp EXCEPT !.poly_spread = sp])
                IN  /\ sp <= arg.inp.poly_spread => out.fo.w_poly <= other
                    /\ sp >= arg.inp.poly_spread => out.fo.w_poly >= other

C14_Witness ==
    /\ out.op = "calculate" /\ arg.kind = "fair" /\ ~arg.inp.poly_stale
    /\ arg.inp.poly_spread = poly_spread_wide_threshold
    /\ out.fo.w_poly < calculate_weight([arg.inp EXCEPT !.poly_spread = 3 * Cent])

----------------------------------------------------------------------------
(* The quote policy's refusals, sizes and guards (specification SpecQuote) *)

\* C15: the quote policy returns neither bid nor ask whenever the shock flag
\* is set (reason "shock_detected") or both venues are stale (reason
\* "data_stale" unless the shock flag decided first); with exactly one venue
\* stale and no shock it evaluates quotes (reason "ok").
C15_RefusesOnShockOrBothStale ==
    (out.op = "calculate_quotes" /\ arg.kind = "quote") =>
        /\ arg.fo.is_shocked =>
              out.yes = NoQuote /\ out.no = NoQuote /\ out.reason = "shock_detected"
        /\ BothStale(arg.snap) =>
              /\ out.yes = NoQuote /\ out.no = NoQuote
              /\ ~arg.fo.is_shocked => out.reason = "data_stale"
        /\ (arg.snap.kalshi_stale # arg.snap.polymarket_stale /\ ~arg.fo.is_shocked) =>
              out.reason = "ok"

C15_Witness ==
    /\ out.op = "calculate_quotes" /\ arg.kind = "quote" /\ ~arg.fo.is_shocked
    /\ arg.snap.kalshi_stale /\ ~arg.snap.polymarket_stale
    /\ out.reason = "ok" /\ out.yes # NoQuote /\ out.no # NoQuote

\* C16: the size of every returned bid or ask is at most the per-order
\* notional cap divided by its price, at most the max-contracts-per-order cap
\* and at most the configured fraction of the visible venue-A depth on its
\* side (no depth cap without visible depth); a side whose smallest cap
\* rounds down to 0 is omitted.
C16_SizeWithinCaps ==
    LET WithinCaps(q, visible_depth) ==
            /\ q.qty * q.price <= max_order_notional_cents
            /\ q.qty <= max_contracts_per_order
            /\ Truthy(visible_depth) =>
                  100 * q.qty <= visible_depth * max_size_vs_depth_ratio_pct
    IN  (out.op = "calculate_quotes" /\ arg.kind = "quote") =>
            /\ out.yes # NoQuote => WithinCaps(out.yes, arg.snap.kalshi_best_bid_size)
            /\ out.no # NoQuote => WithinCaps(out.no, arg.snap.kalshi_best_ask_size)

\* C20: the post-only guard leaves the computed bid alone when it is strictly
\* below the resting ask tick and otherwise makes it exactly the resting ask
\* minus one tick; symmetrically the computed ask is left alone when strictly
\* above the resting bid tick and otherwise becomes the resting bid plus one.
C20_GuardExact ==
    (out.op = "calculate_quotes" /\ arg.kind = "quote" /\ out.reason = "ok") =>
        LET half_spread == calculate_half_spread(arg.fo, arg.match_phase)
            bid_ticks == prob_to_ticks(arg.fo.fair - half_spread)
            ask_ticks == prob_to_ticks(arg.fo.fair + half_spread)
        IN  /\ HasRestingAsk =>
                  guard_bid(bid_ticks, arg.snap.kalshi_best_ask_price)
                      = IF bid_ticks < RestingAsk THEN bid_ticks ELSE RestingAsk - 1
            /\ HasRestingBid =>
                  guard_ask(ask_ticks, arg.snap.kalshi_best_bid_price)
                      = IF ask_ticks > RestingBid THEN ask_ticks ELSE RestingBid + 1

----------------------------------------------------------------------------
(* A run of one constant venue-B mid (specification SpecDetector) *)

\* C18: while one calculator is fed the same venue-B mid again, the shock
\* score does not increase, its numerator (the distance of the mid from the
\* running mean) shrinks by the factor 0.9 over a denominator of at least
\* 0.01, so the score tends to 0, and a false shock flag stays false; a run
\* that is at the running mean already (one that starts at the seeding
\* observation) scores 0 and does not shock.
C18_ConstantMidDecays ==
    [][(/\ arg.kind = "observe" /\ arg.inp.poly_mid # None
        /\ arg'.kind = "observe" /\ arg'.inp.poly_mid = arg.inp.poly_mid) =>
        /\ FracLeq(out'.fo.shock_score.num, out'.fo.shock_score.den,
                   out.fo.shock_score.num, out.fo.shock_score.den)
        /\ 10 * out'.fo.shock_score.num = 9 * out.fo.shock_score.num
        /\ out'.fo.shock_score.den >= Cent
        /\ ~out.fo.is_shocked => ~out'.fo.is_shocked
        /\ arg.inp.poly_mid = ewma.mid =>
              out'.fo.shock_score.num = 0 /\ ~out'.fo.is_shocked]_vars

\* Seeded at 0.50, moved to 0.54 (shock) and fed 0.54 again: no shock, score
\* still positive.
C18_Witness ==
    /\ arg.kind = "observe" /\ arg.inp.poly_mid = 54 * Cent
    /\ arg.before.mid = (504 * Cent) \div 10
    /\ out.fo.shock_score.num > 0
    /\ ~out.fo.is_shocked

----------------------------------------------------------------------------
(* The risk manager's position book: update_position beside the pause set,  *)
(* the fill windows and the limit checks (specification SpecPositions)      *)

ReportPosition(id, pos) ==
    /\ risk' = update_position(risk, id, pos)
    /\ arg' = [kind |-> "position", pos |-> pos]
    /\ out' = [NoOut EXCEPT !.op = "update_position", !.market = id]
    /\ UNCHANGED <<now, sm, snapshots, ewma, obs, hist>>

\* check_position_limit, check_total_notional and check_drawdown for market id
\* at the mid price current_mid_price.
CheckLimits(id, current_mid_price) ==
    /\ out' = [NoOut EXCEPT
                 !.op = "check_limits", !.market = id,
                 !.ok = /\ check_position_limit(current_mid_price,
                                                risk.positions[id].net_contracts)
                        /\ check_total_notional(SumPositions(Markets))
                        /\ check_drawdown(risk.positions[id].realized_pnl_cents,
                                          risk.positions[id].unrealized_pnl_cents)]
    /\ UNCHANGED <<now, sm, snapshots, ewma, obs, risk, arg, hist>>

NextPositions ==
    \/ \E m \in Markets, pos \in PositionInputs : ReportPosition(m, pos)
    \/ \E m \in Markets : CheckLimits(m, 50 * Cent)
    \/ \E m \in Markets : CheckFillRate(m, 1500)
    \/ \E m \in Markets : PauseMarket(m)
    \/ \E m \in Markets : UnpauseMarket(m)
    \/ HalfMinute

SpecPositions == Init /\ [][NextPositions]_vars

\* C19: update_position replaces the stored position of the named market with
\* the reported values whether or not a limit is breached or the market is
\* paused, and leaves every other market's position, every fill window and
\* the paused set as they were; no check operation changes a recorded position.
C19_UpdatePositionFrame ==
    [][/\ out'.op = "update_position" =>
              /\ risk'.positions[out'.market] = arg'.pos
              /\ \A m \in Markets \ {out'.market} :
                     risk'.positions[m] = risk.positions[m]
              /\ risk'.fill_notional_by_market = risk.fill_notional_by_market
              /\ risk'.paused_markets = risk.paused_markets
       /\ out'.op \in {"check_limits", "check_fill_rate"} =>
              risk'.positions = risk.positions]_vars

\* A position breaching the position limit was recorded for a paused market
\* while the other market holds a position and a fill window is not empty.
C19_Witness ==
    /\ out.op = "update_position"
    /\ out.market \in risk.paused_markets
    /\ risk.positions[out.market] = arg.pos
    /\ ~check_position_limit(50 * Cent, arg.pos.net_contracts)
    /\ \E m \in Markets \ {out.market} : risk.positions[m].present
    /\ \E m \in Markets : risk.fill_notional_by_market[m] # <<>>

----------------------------------------------------------------------------
(* Lifecycle transitions of the orchestrator (specification Spec) *)

\* C21: a market moves from WAIT_DATA to QUOTING only at an evaluation whose
\* snapshot has both venues non-stale with a mid, with at least warmup_seconds
\* elapsed since the current warmup start and the market not risk-paused; it
\* never reaches QUOTING directly from INIT.
C21_WaitDataToQuoting ==
    [][\A m \in Markets :
          /\ (sm[m].state = "WAIT_DATA" /\ sm'[m].state = "QUOTING") =>
                /\ out'.op = "on_market_event" /\ out'.market = m
                /\ has_kalshi(snapshots'[m]) /\ has_poly(snapshots'[m])
                /\ sm[m].warmup_start_ts_ms # None
                /\ now - sm[m].warmup_start_ts_ms >= warmup_seconds * 1000
                /\ m \notin risk.paused_markets
          /\ sm[m].state = "INIT" => sm'[m].state # "QUOTING"]_vars

\* m2, which nothing pauses, is quoting without ever having been shock-paused.
C21_Witness ==
    /\ out.op = "on_market_event" /\ out.market = "m2"
    /\ sm["m2"].state = "QUOTING" /\ sm["m2"].pause_until_ts_ms = None
    /\ Quoted(out)

\* C22: a market moves from PAUSED to QUOTING only at an evaluation where its
\* resume-at is unset or has elapsed, both venues are non-stale with a mid,
\* the market is not risk-paused and the phase is not STOP_QUOTING: a
\* shock-paused market never quotes again before its resume-at time.
C22_PausedToQuoting ==
    [][\A m \in Markets :
          (sm[m].state = "PAUSED" /\ sm'[m].state = "QUOTING") =>
              /\ out'.op = "on_market_event" /\ out'.market = m
              /\ sm[m].pause_until_ts_ms = None \/ now >= sm[m].pause_until_ts_ms
              /\ has_kalshi(snapshots'[m]) /\ has_poly(snapshots'[m])
              /\ m \notin risk.paused_markets
              /\ phase_of(m, now) # "STOP_QUOTING"]_vars

\* A market quotes again at or after the resume-at time a shock gave it.
C22_Witness ==
    \E m \in Markets :
        /\ out.op = "on_market_event" /\ out.market = m
        /\ sm[m].state = "QUOTING"
        /\ sm[m].pause_until_ts_ms # None /\ now >= sm[m].pause_until_ts_ms

\* C23: while the risk manager reports a market as paused, no evaluation of
\* it ends in QUOTING and none returns a quote: from QUOTING it moves to
\* PAUSED (to DONE once the phase is STOP_QUOTING), and from WAIT_DATA or
\* PAUSED it does not enter QUOTING.
C23_RiskPausedNeverQuotes ==
    [][\A m \in Markets :
          (out'.op = "on_market_event" /\ out'.market = m /\ m \in risk.paused_markets) =>
              /\ sm'[m].state # "QUOTING"
              /\ ~Quoted(out')
              /\ sm[m].state = "QUOTING" =>
                    sm'[m].state = IF phase_of(m, now) = "STOP_QUOTING"
                                   THEN "DONE" ELSE "PAUSED"]_vars

\* A risk-paused market was evaluated and stands PAUSED with no resume-at.
C23_Witness ==
    \E m \in Markets :
        /\ out.op = "on_market_event" /\ out.market = m /\ m \in risk.paused_markets
        /\ sm[m].state = "PAUSED" /\ sm[m].pause_until_ts_ms = None

\* C25: an evaluation of a quoting market that detects a shock leaves the
\* market PAUSED with resume-at equal to the evaluation time plus the shock
\* pause duration, and returns no quote.
C25_ShockPauses ==
    (out.op = "on_market_event" /\ out.evaluated /\ out.fo.is_shocked) =>
        /\ sm[out.market].state = "PAUSED"
        /\ sm[out.market].pause_until_ts_ms = now + pause_seconds_shock * 1000
        /\ ~Quoted(out)

C25_Witness ==
    /\ out.op = "on_market_event" /\ out.evaluated /\ out.fo.is_shocked
    /\ now > 0
    /\ sm[out.market].state = "PAUSED"

\* C26: on_market_event returns a non-empty desired quote for a market only
\* if the market is in QUOTING when the call returns, and never at an
\* evaluation made while the market's phase is STOP_QUOTING.
C26_QuotesOnlyWhenQuoting ==
    Quoted(out) =>
        /\ out.op = "on_market_event"
        /\ sm[out.market].state = "QUOTING"
        /\ phase_of(out.market, now) # "STOP_QUOTING"

\* m1, past its warmup, quoted in play.
C26_Witness ==
    /\ Quoted(out) /\ out.market = "m1"
    /\ phase_of("m1", now) = "INPLAY"

----------------------------------------------------------------------------
(* The end of quoting for m1, whose phase becomes STOP_QUOTING after two     *)
(* clock steps: venue-A events and venue-B polls of m1 arrive or not, the   *)
(* clock advances as long as it can.                                        *)

NextStop ==
    \/ \E tob \in TobInputs("T1") : OnMarketEvent("T1", tob)
    \/ \E d \in PolyInputs("m1", now) : PollMarket("m1", d)
    \/ \E m \in RiskMarkets : PauseMarket(m)
    \/ \E m \in RiskMarkets : UnpauseMarket(m)
    \/ Tick

FairStop == Init /\ [][NextStop]_vars /\ WF_vars(Tick)

\* C24: once the phase of a market is STOP_QUOTING the market becomes DONE,
\* from whatever state it is in, whether or not another venue-A event
\* arrives for it.
C24_StopQuotingReachesDone ==
    [](phase_of("m1", now) = "STOP_QUOTING" => <>(sm["m1"].state = "DONE"))

----------------------------------------------------------------------------
(* Which fields an update writes (specification SpecStore) *)

\* C27: update_kalshi with a book leaves every venue-B field of the market's
\* snapshot (bid, ask, mid, spread, depths, stale flag) unchanged and sets the
\* venue-A stale flag to false; update_polymarket with data leaves every
\* venue-A field (prices, sizes, mid, stale flag) unchanged and sets the
\* venue-B stale flag to false; neither changes another market's snapshot.
C27_UpdateFrame ==
    [][LET VenueA(s) == <<s.kalshi_best_bid_price, s.kalshi_best_bid_size,
                          s.kalshi_best_ask_price, s.kalshi_best_ask_size,
                          s.kalshi_mid, s.kalshi_stale>>
           VenueB(s) == <<s.polymarket_best_bid, s.polymarket_best_ask,
                          s.polymarket_mid, s.polymarket_spread,
                          s.polymarket_top_depth_bid, s.polymarket_top_depth_ask,
                          s.polymarket_stale>>
       IN  \A m \in Markets :
              /\ (out'.op = "update_kalshi" /\ out'.market = m
                      /\ out'.reason = "payload") =>
                    /\ VenueB(snapshots'[m]) = VenueB(snapshots[m])
                    /\ ~snapshots'[m].kalshi_stale
              /\ (out'.op = "update_polymarket" /\ out'.market = m
                      /\ out'.reason = "payload") =>
                    /\ VenueA(snapshots'[m]) = VenueA(snapshots[m])
                    /\ ~snapshots'[m].polymarket_stale
              /\ (out'.op \in {"update_kalshi", "update_polymarket"}
                      /\ out'.market # m) =>
                    snapshots'[m] = snapshots[m]]_vars

\* update_kalshi brought a book to a market whose venue-B data is held and
\* flagged stale, while the other market has a snapshot too.
C27_Witness ==
    \E m \in Markets :
        /\ out.op = "update_kalshi" /\ out.market = m /\ out.reason = "payload"
        /\ snapshots[m].polymarket_mid # None /\ snapshots[m].polymarket_stale
        /\ snapshots[m].kalshi_mid # None /\ ~snapshots[m].kalshi_stale
        /\ \A o \in Markets : snapshots[o].present

----------------------------------------------------------------------------
(* The venue-A push path and the venue-B poll path on one market.  The poll *)
(* suspends once, at its request to venue B (await get_market_data): arg    *)
(* holds the request in flight with the phase computed before it, and any   *)
(* venue-A event, read or clock step may come between request and answer.   *)

\* _poll_market up to its await: the phase test, then the request is sent.
PollRequest(id) ==
    /\ arg = NoArg
    /\ arg' = IF phase_of(id, now) = "STOP_QUOTING" THEN NoArg
              ELSE [kind |-> "poll", market |-> id, match_phase |-> phase_of(id, now)]
    /\ out' = [NoOut EXCEPT !.op = "poll_request", !.market = id]
    /\ UNCHANGED <<now, sm, snapshots, ewma, obs, risk, hist>>

\* A torn answer: only the first assignment of update_polymarket lands.
PollResponseTorn(id, poly_data) ==
    /\ arg.kind = "poll" /\ arg.market = id
    /\ arg' = NoArg
    /\ snapshots' = IF poly_data.present
                    THEN [snapshots EXCEPT
                            ![id] = [snapshot_or_new(@, now) EXCEPT
                                        !.polymarket_best_bid = poly_data.best_bid]]
                    ELSE snapshots
    /\ out' = [NoOut EXCEPT !.op = "poll_response", !.market = id]
    /\ UNCHANGED <<now, sm, ewma, obs, risk, hist>>

\* _poll_market after its await: the answer poly_data (NoPoly: the request
\* failed) is stored with the phase computed before the request.
PollResponse(id, poly_data) ==
    /\ arg.kind = "poll" /\ arg.market = id
    /\ arg' = NoArg
    /\ snapshots' = IF poly_data.present
                    THEN [snapshots EXCEPT
                            ![id] = update_polymarket(@, poly_data, arg.match_phase, now)]
                    ELSE snapshots
    /\ out' = [NoOut EXCEPT !.op = "poll_response", !.market = id]
    /\ UNCHANGED <<now, sm, ewma, obs, risk, hist>>

NextPoll ==
    \/ \E tob \in TobInputs("T1") : OnMarketEvent("T1", tob)
    \/ PollRequest("m1")
    \/ \E d \in PolyInputs("m1", now) \cup {NoPoly} : PollResponse("m1", d)
    \/ StoreGet("m1")
    \/ Tick

SpecPoll == Init /\ [][NextPoll]_vars

\* C28: under every interleaving of the venue-A push path and the venue-B
\* poll path on a market, each venue's field group in the snapshot is the
\* group one single update wrote (or still empty): no read finds a bid of one
\* update beside an ask, mid or spread of another update of the same venue.
C28_GroupsAtomic ==
    LET s == snapshots["m1"]
        GroupA(x) == <<x.kalshi_best_bid_price, x.kalshi_best_bid_size,
                       x.kalshi_best_ask_price, x.kalshi_best_ask_size, x.kalshi_mid>>
        GroupB(x) == <<x.polymarket_best_bid, x.polymarket_best_ask,
                       x.polymarket_mid, x.polymarket_spread,
                       x.polymarket_top_depth_bid, x.polymarket_top_depth_ask>>
    IN  /\ \/ GroupA(s) = GroupA(NoSnapshot)
           \/ \E tob \in TobInputs("T1") :
                  GroupA(s) = GroupA(update_kalshi(NoSnapshot, tob, "INPLAY", 0))
        /\ \/ GroupB(s) = GroupB(NoSnapshot)
           \/ \E d \in PolyInputs("m1", 0) :
                  GroupB(s) = GroupB(update_polymarket(NoSnapshot, d, "INPLAY", 0))

\* A venue-A event of m1 was evaluated while a poll of m1 was in flight, on
\* a snapshot holding books of both venues.
C28_Witness ==
    /\ arg.kind = "poll" /\ arg.market = "m1"
    /\ out.op = "on_market_event" /\ out.market = "m1" /\ out.evaluated
    /\ snapshots["m1"].polymarket_best_bid # None
    /\ snapshots["m1"].kalshi_best_bid_price # None

----------------------------------------------------------------------------
(* _prob_to_ticks alone, on probabilities of the half-cent grid from 0 to   *)
(* just above 1; the ticks it returns are recorded as a quote price.        *)

TickArgs == {[kind |-> "ticks", prob |-> (k * Cent) \div 2] : k \in 0 .. 204}

CallTicks ==
    /\ arg.kind = "ticks"
    /\ out = NoOut
    /\ out' = [NoOut EXCEPT !.op = "prob_to_ticks",
                            !.yes = [price |-> prob_to_ticks(arg.prob), qty |-> None]]
    /\ UNCHANGED <<now, sm, snapshots, ewma, obs, risk, arg, hist>>

InitTicks == Constructed /\ arg \in TickArgs

SpecTicks == InitTicks /\ [][CallTicks]_vars

\* C29: probability-to-tick conversion rounds half up and clamps to 1..99:
\* ticks = clamp(floor(100 * p + 0.5), 1, 99) for every probability p, so
\* that 0.485 converts to 49 and 0.005 to 1.
C29_RoundsHalfUp ==
    out.op = "prob_to_ticks" =>
        out.yes.price = Max(1, Min(99, (2 * arg.prob + Cent) \div (2 * Cent)))

----------------------------------------------------------------------------
(* The fusion with one mid missing (specification SpecFair) *)

\* C30: single-source fallback of the fusion: with the venue-A mid absent and
\* the venue-B mid present the fused probability is the venue-B mid; with the
\* venue-B mid absent and the venue-A mid present it is the venue-A mid; with
\* both absent it is the default 0.50.
C30_SingleSourceFallback ==
    (out.op = "calculate" /\ arg.kind = "fair") =>
        /\ (arg.inp.kalshi_mid = None /\ arg.inp.poly_mid # None) =>
              out.fo.fair = arg.inp.poly_mid
        /\ (arg.inp.poly_mid = None /\ arg.inp.kalshi_mid # None) =>
              out.fo.fair = arg.inp.kalshi_mid
        /\ (arg.inp.poly_mid = None /\ arg.inp.kalshi_mid = None) =>
              out.fo.fair = 50 * Cent

----------------------------------------------------------------------------
(* The venue-B poll task beside the venue-A push path.  start() creates the *)
(* task, which runs _poll_polymarket_loop; the task and the engine's calls  *)
(* share one event loop, so the task runs from one await to the next        *)
(* without interruption.  arg holds the configuration explored (the         *)
(* markets without a venue-B token), the task's position and the records    *)
(* the strategy's logger was given.  The engine starts the strategy once    *)
(* and stops it once, and pushes venue-A books of the in-play market.       *)

MaxRounds == 2       \* rounds of the poll loop explored

\* self._contexts.values(): the markets in configuration order.
ContextOrder == <<"m1", "m2">>

\* The markets left of a round once _poll_market has returned early for the
\* leading ones (phase STOP_QUOTING, or no token id): the first is requested.
RECURSIVE skip_unpollable(_, _, _)
skip_unpollable(todo, unmapped, now_ms) ==
    IF todo = <<>> THEN <<>>
    ELSE IF phase_of(Head(todo), now_ms) = "STOP_QUOTING" \/ Head(todo) \in unmapped
    THEN skip_unpollable(Tail(todo), unmapped, now_ms)
    ELSE todo

\* The task's position with rest left of the round: suspended at the request
\* for Head(rest), or at asyncio.sleep(2.0) after the round.
suspend_at(a, rest, now_ms) ==
    IF rest = <<>>
    THEN [a EXCEPT !.pc = "sleeping", !.todo = <<>>, !.match_phase = ""]
    ELSE [a EXCEPT !.pc = "awaiting", !.todo = rest,
                   !.match_phase = phase_of(Head(rest), now_ms),
                   !.polled = @ \cup {Head(rest)}]

InitLoop ==
    /\ Constructed
    /\ \E unmapped \in SUBSET Markets :
          arg = [kind |-> "loop", unmapped |-> unmapped, running |-> FALSE,
                 pc |-> "not_started", todo |-> <<>>, match_phase |-> "",
                 polled |-> {}, rounds |-> 0, log |-> <<>>, stopped |-> FALSE]

\* start()
Start ==
    /\ arg.pc = "not_started"
    /\ arg' = [arg EXCEPT !.running = TRUE, !.pc = "scheduled"]
    /\ out' = [NoOut EXCEPT !.op = "start"]
    /\ UNCHANGED <<now, sm, snapshots, ewma, obs, risk, hist>>

\* The task's first step, or its step after the sleep: the loop test, then a
\* round of _poll_all_markets up to its first request.
LoopWake ==
    /\ arg.pc \in {"scheduled", "sleeping"}
    /\ IF ~arg.running
       THEN arg' = [arg EXCEPT !.pc = "ended"]
       ELSE /\ arg.rounds < MaxRounds
            /\ arg' = suspend_at([arg EXCEPT !.rounds = @ + 1, !.polled = {}],
                                 skip_unpollable(ContextOrder, arg.unmapped, now), now)
    /\ out' = [NoOut EXCEPT !.op = "poll_round"]
    /\ UNCHANGED <<now, sm, snapshots, ewma, obs, risk, hist>>

\* An exception of one market's poll taken as the round's: the rest is dropped.
PollAnswerAbortsRound(poly_data, raised) ==
    /\ arg.pc = "awaiting"
    /\ LET id == Head(arg.todo)
           a == IF raised
                THEN [arg EXCEPT !.log = Append(@, [kind |-> "poll_error", market |-> id])]
                ELSE arg
       IN  /\ snapshots' =
                  IF ~raised /\ poly_data.present
                  THEN [snapshots EXCEPT
                          ![id] = update_polymarket(@, poly_data, arg.match_phase, now)]
                  ELSE snapshots
           /\ arg' = suspend_at(a, IF raised THEN <<>>
                                   ELSE skip_unpollable(Tail(arg.todo), arg.unmapped, now),
                                now)
           /\ out' = [NoOut EXCEPT
                        !.op = "poll_response", !.market = id,
                        !.reason = IF raised THEN "raised"
                                   ELSE IF poly_data.present THEN "data" ELSE "none"]
    /\ UNCHANGED <<now, sm, ewma, obs, risk, hist>>

\* The task's step when the request in flight is answered: poly_data (NoPoly:
\* the client returned None), or raised: the request raised an exception,
\* which _poll_all_markets logs.  The round goes on to its next request.
PollAnswer(poly_data, raised) ==
    /\ arg.pc = "awaiting"
    /\ LET id == Head(arg.todo)
           a == IF raised
                THEN [arg EXCEPT !.log = Append(@, [kind |-> "poll_error", market |-> id])]
                ELSE arg
       IN  /\ snapshots' =
                  IF ~raised /\ poly_data.present
                  THEN [snapshots EXCEPT
                          ![id] = update_polymarket(@, poly_data, arg.match_phase, now)]
                  ELSE snapshots
           /\ arg' = suspend_at(a, skip_unpollable(Tail(arg.todo), arg.unmapped, now), now)
           /\ out' = [NoOut EXCEPT
                        !.op = "poll_response", !.market = id,
                        !.reason = IF raised THEN "raised"
                                   ELSE IF poly_data.present THEN "data" ELSE "none"]
    /\ UNCHANGED <<now, sm, ewma, obs, risk, hist>>

\* stop() that clears the flag and leaves the task alone.
StopFlagOnly ==
    /\ arg.pc \in {"scheduled", "awaiting", "sleeping"}
    /\ ~arg.stopped
    /\ arg' = [arg EXCEPT !.running = FALSE, !.stopped = TRUE]
    /\ out' = [NoOut EXCEPT !.op = "stop"]
    /\ UNCHANGED <<now, sm, snapshots, ewma, obs, risk, hist>>

\* stop() up to its await: the flag is cleared and the task is cancelled
\* where it is suspended.
Stop ==
    /\ arg.pc \in {"scheduled", "awaiting", "sleeping"}
    /\ ~arg.stopped
    /\ arg' = [arg EXCEPT !.running = FALSE, !.pc = "cancelling"]
    /\ out' = [NoOut EXCEPT !.op = "stop"]
    /\ UNCHANGED <<now, sm, snapshots, ewma, obs, risk, hist>>

\* The cancelled task's last step: CancelledError is raised at its await,
\* passes `except Exception` and ends the loop; stop()'s await returns.  A
\* request that was in flight is abandoned: todo keeps the round as it stood.
TaskCancelled ==
    /\ arg.pc = "cancelling"
    /\ arg' = [arg EXCEPT !.pc = "ended", !.stopped = TRUE]
    /\ out' = [NoOut EXCEPT !.op = "cancelled"]
    /\ UNCHANGED <<now, sm, snapshots, ewma, obs, risk, hist>>

NextLoop ==
    \/ Start
    \/ LoopWake
    \/ \E d \in PolyInputs("m2", now) \cup {NoPoly} : PollAnswer(d, FALSE)
    \/ PollAnswer(NoPoly, TRUE)
    \/ Stop
    \/ TaskCancelled
    \/ \E m \in WaitMarkets : OnMarketEvent(kalshi_ticker(m), GoodTob)
    \/ Tick

SpecLoop == InitLoop /\ [][NextLoop]_vars

\* C31: a failed venue-B poll of one market (the client returned nothing, as
\* it does on a timeout or an HTTP error, or the request raised) is no update:
\* it changes no snapshot, lifecycle state, detector state or risk state, so
\* venue-A events are handled as before; the round goes on to the remaining
\* markets, each of which with a token and a phase before STOP_QUOTING is
\* requested before the round ends, and the loop stays alive for its next round.
C31_FailedPollIsNoUpdate ==
    [][(out'.op = "poll_response" /\ out'.reason \in {"none", "raised"}) =>
          /\ snapshots' = snapshots /\ sm' = sm /\ ewma' = ewma /\ risk' = risk
          /\ arg'.running /\ arg'.pc \in {"awaiting", "sleeping"}
          /\ arg'.rounds = arg.rounds
          /\ arg'.pc = "awaiting" =>
                Head(arg'.todo) \notin arg.polled /\ Head(arg'.todo) # out'.market
          /\ arg'.pc = "sleeping" =>
                \A m \in Markets \ arg.unmapped :
                    phase_of(m, now) # "STOP_QUOTING" => m \in arg'.polled]_vars

\* In the loop's second round, after a poll of m1 raised in each round, the
\* request for m2 is in flight and a venue-A event of m2 has just been quoted.
C31_Witness ==
    /\ arg.kind = "loop" /\ arg.rounds = 2 /\ Len(arg.log) = 2
    /\ arg.pc = "awaiting" /\ Head(arg.todo) = "m2"
    /\ out.op = "on_market_event" /\ out.market = "m2" /\ Quoted(out)

\* C32: a market without a venue-B token is never requested and its snapshot
\* never receives venue-B data in any round; once a round has passed it over
\* (its phase being before STOP_QUOTING) the log holds exactly one record of
\* the omission; and every round requests every other market whose phase is
\* before STOP_QUOTING.
C32_UnmappedExcluded ==
    arg.kind = "loop" =>
        /\ \A m \in arg.unmapped :
              /\ m \notin arg.polled
              /\ snapshots[m].polymarket_mid = None
              /\ snapshots[m].polymarket_best_bid = None
              /\ snapshots[m].polymarket_best_ask = None
              /\ (arg.pc = "sleeping" /\ phase_of(m, now) # "STOP_QUOTING") =>
                    Cardinality({i \in 1 .. Len(arg.log) : arg.log[i].market = m}) = 1
        /\ arg.pc = "sleeping" =>
              \A m \in Markets \ arg.unmapped :
                  phase_of(m, now) # "STOP_QUOTING" => m \in arg.polled

\* C33: once stop() has completed the poll task has ended and stays ended: no
\* step after it starts a round, issues a venue-B request or writes venue-B
\* data to a snapshot, whether the task was cancelled at its sleep, before
\* its first step, or with a request in flight.
C33_StopCancelsPolling ==
    [][LET VenueB(s) == <<s.polymarket_best_bid, s.polymarket_best_ask,
                          s.polymarket_mid, s.polymarket_spread,
                          s.polymarket_top_depth_bid, s.polymarket_top_depth_ask,
                          s.polymarket_stale>>
       IN  (arg.kind = "loop" /\ arg.stopped) =>
              /\ arg.pc = "ended" /\ ~arg.running
              /\ arg' = arg
              /\ out'.op \notin {"poll_round", "poll_response"}
              /\ \A m \in Markets : VenueB(snapshots'[m]) = VenueB(snapshots[m])]_vars

\* stop() completed with the request for m2 in flight, and a venue-A event of
\* m2 was handled afterwards on a snapshot that holds no venue-B data.
C33_Witness ==
    /\ arg.kind = "loop" /\ arg.stopped /\ arg.pc = "ended"
    /\ arg.todo # <<>> /\ Head(arg.todo) = "m2"
    /\ out.op = "on_market_event" /\ out.market = "m2"
    /\ snapshots["m2"].polymarket_mid = None

----------------------------------------------------------------------------
(* Venue-A events that can and cannot be used.  The engine pushes books of  *)
(* the in-play market's ticker and of a ticker no market is configured      *)
(* with, with and without a top of book; arg records the arguments of the   *)
(* last call, whether the call before it was skipped, and the parity of the *)
(* number of calls, which tells a call from every other step.               *)

NextEvents ==
    \/ \E t \in Tickers \ {kalshi_ticker("m1")} :
       \E tob \in {GoodTob, NoTob} :
          /\ on_market_event(t, tob)
          /\ arg' = [kind |-> "event", ticker |-> t, has_tob |-> tob.present,
                     calls |-> IF arg.kind = "event" THEN 1 - arg.calls ELSE 1,
                     after_skip |-> /\ arg.kind = "event"
                                    /\ (arg.ticker = "TX" \/ ~arg.has_tob)]
    \/ WaitPoll
    \/ Tick

SpecEvents == Init /\ [][NextEvents]_vars

\* C34: a venue-A event that cannot be used (its ticker is no configured
\* market's, or no top of book is available) returns the empty quote and
\* changes no snapshot, no lifecycle state, no shock-detector state and no
\* risk state, so that later events of other tickers are handled as if it had
\* not come.
C34_UnusableEventSkipped ==
    [][(/\ arg' # arg /\ arg'.kind = "event"
        /\ \/ ~arg'.has_tob
           \/ \A m \in Markets : kalshi_ticker(m) # arg'.ticker) =>
          /\ out'.yes = NoQuote /\ out'.no = NoQuote /\ ~out'.evaluated
          /\ snapshots' = snapshots /\ sm' = sm
          /\ ewma' = ewma /\ obs' = obs /\ risk' = risk]_vars

\* A book of m2's ticker was quoted right after a skipped call.
C34_Witness ==
    /\ arg.kind = "event" /\ arg.after_skip
    /\ arg.ticker = "T2" /\ arg.has_tob
    /\ out.op = "on_market_event" /\ out.market = "m2" /\ Quoted(out)

----------------------------------------------------------------------------
(* The shape of the quotes returned (specification SpecQuote) *)

\* C35: whenever the quote policy returns both a bid and an ask the bid price
\* is strictly below the ask price; every returned bid price is in 1..98,
\* every returned ask price in 2..99, and every returned size is at least 1.
C35_QuoteWellFormed ==
    (out.op = "calculate_quotes" /\ arg.kind = "quote") =>
        /\ (out.yes # NoQuote /\ out.no # NoQuote) => out.yes.price < out.no.price
        /\ out.yes # NoQuote =>
              out.yes.price >= 1 /\ out.yes.price <= 98 /\ out.yes.qty >= 1
        /\ out.no # NoQuote =>
              out.no.price >= 2 /\ out.no.price <= 99 /\ out.no.qty >= 1

\* Both sides returned at a fair price of 0.99: the ask at the top tick, with
\* the size the visible depth of 3 allows.
C35_Witness ==
    /\ out.op = "calculate_quotes" /\ arg.kind = "quote"
    /\ arg.fo.fair = 99 * Cent
    /\ out.yes # NoQuote /\ out.no # NoQuote
    /\ out.no.price = 99 /\ out.no.qty = 1

----------------------------------------------------------------------------
(* What only a venue-A event does (specification Spec) *)

\* C36: lifecycle changes and quote evaluations happen only while a venue-A
\* event is handled: a market's state machine (state, resume-at, warmup start)
\* changes only at an event of that market, so a market that receives none
\* stays in INIT; the shock detector changes and a quote is evaluated or
\* returned only at an event; and a step that writes venue-B data to a
\* snapshot, as a poll does, changes no state machine and no detector state.
C36_OnlyEventsEvaluate ==
    [][LET VenueB(s) == <<s.polymarket_best_bid, s.polymarket_best_ask,
                          s.polymarket_mid, s.polymarket_spread,
                          s.polymarket_top_depth_bid, s.polymarket_top_depth_ask,
                          s.polymarket_stale>>
       IN  /\ \A m \in Markets :
                 /\ sm'[m] # sm[m] =>
                       out'.op = "on_market_event" /\ out'.market = m
                 /\ VenueB(snapshots'[m]) # VenueB(snapshots[m]) =>
                       /\ sm' = sm /\ ewma' = ewma /\ obs' = obs
                       /\ ~out'.evaluated /\ ~Quoted(out')
           /\ (ewma' # ewma \/ obs' # obs \/ out'.evaluated \/ Quoted(out')) =>
                 out'.op = "on_market_event"]_vars

\* m1 holds venue-B data from a poll and is still in INIT when its phase has
\* changed, while m2 is quoting.
C36_Witness ==
    /\ sm["m1"].state = "INIT" /\ snapshots["m1"].polymarket_mid # None
    /\ phase_of("m1", now) = "INPLAY"
    /\ sm["m2"].state = "QUOTING"

----------------------------------------------------------------------------
(* The staleness flags in the orchestrator (specification Spec) *)

\* C37: the orchestrator calls the store with a payload only (a venue-A event
\* without top of book returns before the store, a poll without answer skips
\* it, and an answer holds the requested token), so both staleness flags of
\* every snapshot are false in every state, and a market never moves from
\* QUOTING to PAUSED for both venues being stale: it does so only when a
\* shock was detected or the market is risk-paused.
C37_FlagsNeverSet ==
    [][\A m \in Markets :
          /\ ~snapshots[m].kalshi_stale /\ ~snapshots[m].polymarket_stale
          /\ ~snapshots'[m].kalshi_stale /\ ~snapshots'[m].polymarket_stale
          /\ (sm[m].state = "QUOTING" /\ sm'[m].state = "PAUSED") =>
                \/ out'.evaluated /\ out'.market = m /\ out'.fo.is_shocked
                \/ m \in risk.paused_markets]_vars

\* At the end of the run, one warmup and more after the first data, m2 is
\* quoted on a snapshot that holds data of both venues, neither flagged stale.
C37_Witness ==
    /\ now = MaxNow
    /\ out.op = "on_market_event" /\ out.market = "m2" /\ Quoted(out)
    /\ snapshots["m2"].polymarket_mid # None /\ snapshots["m2"].kalshi_mid # None
    /\ ~snapshots["m2"].polymarket_stale /\ ~snapshots["m2"].kalshi_stale

----------------------------------------------------------------------------
(* The ceiling of the shock score (specification SpecDetector) *)

\* C38: the volatility EWMA absorbs the current move before the score is
\* taken, so the shock score of every evaluation is at most 1/alpha = 10,
\* whatever venue-B mids came before; hence under a shock threshold above 10
\* (10.1, 15 and 100 are tried) the comparison that sets the shock flag is
\* never true.
C38_ScoreAtMostTen ==
    (out.op = "calculate" /\ arg.kind = "observe") =>
        /\ out.fo.shock_score.num <= 10 * out.fo.shock_score.den
        /\ \A threshold_x10 \in {101, 150, 1000} :
              ~score_at_least_threshold(out.fo.shock_score, threshold_x10)

\* A move from 0.20 to 0.80 on a seeded detector: a shock scoring above 8.
C38_Witness ==
    /\ out.op = "calculate" /\ arg.kind = "observe"
    /\ arg.before.mid = 20 * Cent /\ arg.inp.poly_mid = 80 * Cent
    /\ out.fo.is_shocked
    /\ out.fo.shock_score.num > 8 * out.fo.shock_score.den

----------------------------------------------------------------------------
(* The fill window after a breach (specification SpecRisk) *)

\* C39: check_fill_rate appends the fill it is given to the market's window
\* whether or not the check passes and changes no other market's window, no
\* position and no pause; and once a call for a market was not ok, every
\* further call for that market less than 60 seconds later is not ok either,
\* with pause duration 120.
C39_BreachSticks ==
    [][out'.op = "check_fill_rate" =>
          LET m == out'.market
              w == risk'.fill_notional_by_market[m]
              f == hist'.fills[Len(hist'.fills)]
          IN  /\ w # <<>>
              /\ w[Len(w)] = [ts |-> now, notional |-> f.notional]
              /\ \A o \in Markets \ {m} :
                    risk'.fill_notional_by_market[o] = risk.fill_notional_by_market[o]
              /\ risk'.positions = risk.positions
              /\ risk'.paused_markets = risk.paused_markets
              /\ (\E i \in 1 .. Len(hist.fills) :
                      /\ hist.fills[i].market = m /\ ~hist.fills[i].ok
                      /\ now - hist.fills[i].ts < 60 * 1000) =>
                    ~out'.ok /\ out'.pause_seconds = 120]_vars

----------------------------------------------------------------------------
(* The fee buffer (specification SpecQuote) *)

\* C40: the fee of one contract is the 10-cent minimum and the fee buffer is
\* 0.10 at every price tick 1..99, so the fee buffer of every call of the quote
\* policy is 0.10 and its half-spread is at least 0.10 (10 ticks), in both phases.
C40_FeeBufferConstant ==
    /\ \A t \in 1 .. 99 :
          /\ kalshi_fee_cents(t, 1) = 10
          /\ fee_buffer_probability(t) = 10 * Cent
    /\ out.op = "calculate_quotes" =>
          /\ fee_buffer_probability(prob_to_ticks(arg.fo.fair)) = 10 * Cent
          /\ calculate_half_spread(arg.fo, arg.match_phase) >= 10 * Cent
          /\ \A ph \in Phases :
                calculate_half_spread(arg.fo, ph)
                  = (IF ph = "INPLAY"
                     THEN base_half_spread_inplay + adv_buffer_inplay
                     ELSE base_half_spread_prematch + adv_buffer_prematch)
                    + (IF arg.fo.shock_score.num > arg.fo.shock_score.den
                       THEN adv_buffer_shock ELSE 0)
                    + 10 * Cent

\* A call in play at fair tick 99, where 10% of the price is largest (9 cents,
\* still below the minimum), and a call before the match at fair tick 1.
C40_Witness ==
    /\ out.op = "calculate_quotes"
    /\ \/ arg.match_phase = "INPLAY" /\ prob_to_ticks(arg.fo.fair) = 99
       \/ arg.match_phase = "PREMATCH" /\ prob_to_ticks(arg.fo.fair) = 1
    /\ fee_buffer_probability(prob_to_ticks(arg.fo.fair)) = 10 * Cent

====
